---- MODULE Spec2Model ----
(***************************************************************************)
(* State-machine model of proxy/server.py: device-token lifecycle,        *)
(* conversation store, daily usage metering and the chat handlers         *)
(* (one-shot, per-conversation, per-conversation SSE stream).             *)
(*                                                                         *)
(* Strings are sequences of one-character strings, NULL integer columns   *)
(* are 0 (the code tests "isinstance(exp, int) and exp > 0"), a NULL      *)
(* user_id is NoUser and a NULL title is NoTitle.  Every handler is cut   *)
(* at its awaits on the store or on the upstream: one action per segment. *)
(***************************************************************************)
EXTENDS Integers, Sequences, FiniteSets, TLC

\* ------------------------------------------------------------------ bounds
MaxReq == 2
MaxTicks == 1
MaxItems == 2
MaxKeepalive == 1
MaxLogins == 3
MaxElapse == 2
MaxArrivals == 5
MaxChatArrivals == 61
MaxMsgs == 3
MaxTextLen == 2
MaxFileIds == 2

\* ------------------------------------------------------- program constants
DaySeconds == 86400
TOKEN_TTL_SECONDS == 30 * 86400
TOKEN_REFRESH_WINDOW_SECONDS == 7 * 86400
PersonaPromptLen == 710
_LOGIN_FAILS_PER_MINUTE == 5
_LOGIN_FAIL_WINDOW_SECS == 60
_LOGIN_LOCKOUT_SECS == 300

RATE_LIMITS ==
  [ auth      |-> [requests |-> 10,  window |-> 300],
    chat      |-> [requests |-> 60,  window |-> 60],
    upload    |-> [requests |-> 10,  window |-> 60],
    admin     |-> [requests |-> 5,   window |-> 60],
    export    |-> [requests |-> 3,   window |-> 300],
    crash     |-> [requests |-> 20,  window |-> 60],
    community |-> [requests |-> 10,  window |-> 60],
    default   |-> [requests |-> 120, window |-> 60] ]

LIMITS ==
  [ free |-> [max_context_tokens |-> 8000,  max_output_tokens |-> 2048, daily_tokens |-> 60000],
    pro  |-> [max_context_tokens |-> 32000, max_output_tokens |-> 1024, daily_tokens |-> 600000],
    max  |-> [max_context_tokens |-> 64000, max_output_tokens |-> 2048, daily_tokens |-> 1200000] ]

TIER_LEVEL == [free |-> 0, pro |-> 1, max |-> 2]

\* ------------------------------------------------------------------ inputs
NoUser == "none"
NoTitle == <<>>
StartTime == 20000 * DaySeconds
TickSteps == {DaySeconds}
\* a bearer token, a conversation id and a file id that no row has
UnknownToken == 0
UnknownConv == 0
UnknownFile == 0
\* two handlers at a time in Spec; in SpecChat one chat handler and its environment
Reqs == {1, 2}
EnvSlot == Cardinality(Reqs) + 1
Chats == {EnvSlot + 1}
Slots == Reqs \cup Chats \cup {EnvSlot}
Texts == {<<"h", "i">>, <<"h", "e", "l", "l", "o">>}
StreamItems == {<<"a", "b">>}
NativeContents == {<<>>, <<"o", "k">>}
UpstreamContents == {<<"o", "k">>}
ForcedProviders == {"", "deepseek", "kimi", "claude"}
UpstreamCompletionTokens == {1}
UpstreamFailStatus == 500
NoIp == ""
IPs == {"a", "b"}
ElapseSteps == {10, 290}
Credentials == {"ok", "bad"}
\* os.getenv("CLAUDE_BASE_URL", ""): unset, the native Anthropic API is used
CLAUDE_BASE_URL == ""

VARIABLES
  now,                 \* time.time()
  users,               \* table users: id -> row
  device_tokens,       \* table device_tokens: token -> row
  conversations,       \* table conversations: id -> row
  messages,            \* table messages, in rowid order
  conversation_files,  \* table conversation_files: id -> row
  usage_daily,         \* table usage_daily: <<token, day>> -> row
  ticks,               \* number of clock advances so far
  started,             \* number of requests received so far
  req,                 \* the request handlers: locals and position
  _LOGIN_FAILURES,     \* dict _LOGIN_FAILURES: ip -> failure timestamps
  _RATE_LIMIT_HITS,    \* dict _RATE_LIMIT_HITS: key -> admitted timestamps
  minted,              \* number of device tokens issued so far
  handled,             \* requests the middleware passed on: key -> arrival times
  upload_dir           \* the files in UPLOAD_DIR: the set of their paths

vars == <<now, users, device_tokens, conversations, messages, conversation_files,
          usage_daily, ticks, started, req, _LOGIN_FAILURES, _RATE_LIMIT_HITS, minted,
          handled, upload_dir>>

\* the process-wide in-memory maps, the tokens drawn from the random source,
\* what the middleware let through, and the upload directory
mem == <<_LOGIN_FAILURES, _RATE_LIMIT_HITS, minted, handled, upload_dir>>

db == <<users, device_tokens, conversations, messages, conversation_files, usage_daily>>

\* ----------------------------------------------------------- pure helpers
RECURSIVE SumSeq(_)
SumSeq(s) == IF s = <<>> THEN 0 ELSE Head(s) + SumSeq(Tail(s))

Max2(a, b) == IF a >= b THEN a ELSE b
Min2(a, b) == IF a <= b THEN a ELSE b

_today_utc == now \div DaySeconds

_approx_tokens(text) ==
  IF Len(text) = 0 THEN 0 ELSE Max2(1, (Len(text) + 3) \div 4)

\* A message is a record with its role and either "content" (a string) or
\* "parts" (content that is a list of parts; only parts of type "text" count).
ContentTokens(m) ==
  IF "content" \in DOMAIN m THEN _approx_tokens(m.content)
  ELSE SumSeq([j \in 1..Len(m.parts) |->
                 IF m.parts[j].type = "text" THEN _approx_tokens(m.parts[j].text) ELSE 0])

_messages_approx_tokens(msgs) ==
  SumSeq([i \in 1..Len(msgs) |-> ContentTokens(msgs[i])])

\* a truncation that gives up after the oldest message
DropOldestOnce(system_msgs, kept, max_context_tokens) ==
  IF kept # <<>> /\ _messages_approx_tokens(system_msgs \o kept) > max_context_tokens
  THEN Tail(kept)
  ELSE kept

\* a truncation that drops from the newest end
RECURSIVE DropNewestWhileOver(_, _, _)
DropNewestWhileOver(system_msgs, kept, max_context_tokens) ==
  IF kept # <<>> /\ _messages_approx_tokens(system_msgs \o kept) > max_context_tokens
  THEN DropNewestWhileOver(system_msgs, SubSeq(kept, 1, Len(kept) - 1), max_context_tokens)
  ELSE kept

RECURSIVE DropWhileOver(_, _, _)
DropWhileOver(system_msgs, kept, max_context_tokens) ==
  IF kept # <<>> /\ _messages_approx_tokens(system_msgs \o kept) > max_context_tokens
  THEN DropWhileOver(system_msgs, Tail(kept), max_context_tokens)
  ELSE kept

_truncate_messages_to_fit(msgs, max_context_tokens) ==
  LET system_msgs == SelectSeq(msgs, LAMBDA m : m.role = "system")
      non_system == SelectSeq(msgs, LAMBDA m : m.role # "system")
  IN  system_msgs \o DropWhileOver(system_msgs, non_system, max_context_tokens)

PersonaPrompt == [i \in 1..PersonaPromptLen |-> "p"]

_inject_persona_system_message(msgs) ==
  <<[role |-> "system", content |-> PersonaPrompt]>> \o msgs

\* str.isspace() on the characters of this model
IsSpace(ch) == ch \in {" ", "\t", "\n"}

\* text.strip()
RECURSIVE LStrip(_)
LStrip(text) ==
  IF text # <<>> /\ IsSpace(Head(text)) THEN LStrip(Tail(text)) ELSE text

RECURSIVE RStrip(_)
RStrip(text) ==
  IF text # <<>> /\ IsSpace(text[Len(text)])
  THEN RStrip(SubSeq(text, 1, Len(text) - 1)) ELSE text

Strip(text) == RStrip(LStrip(text))

\* " ".join(text.split()): position is "start" before the first word, "word"
\* inside one and "gap" after whitespace that follows a word
RECURSIVE JoinSplit(_, _)
JoinSplit(text, position) ==
  IF text = <<>> THEN <<>>
  ELSE IF IsSpace(Head(text))
  THEN JoinSplit(Tail(text), IF position = "start" THEN "start" ELSE "gap")
  ELSE (IF position = "gap" THEN <<" ", Head(text)>> ELSE <<Head(text)>>)
         \o JoinSplit(Tail(text), "word")

TitleLen == 50

_title_from_user_message(text) ==
  LET t == JoinSplit(Strip(text), "start")
  IN  IF t = <<>> THEN NoTitle ELSE SubSeq(t, 1, Min2(Len(t), TitleLen))

\* --------------------------------------------------------- token lookups
TokenExpired(row) == row.expires_at > 0 /\ now >= row.expires_at

\* Optional[row] as a set: {} is None.
_get_token_row(token) ==
  IF token \in DOMAIN device_tokens /\ ~TokenExpired(device_tokens[token])
  THEN {device_tokens[token]}
  ELSE {}

\* a lookup that takes every known, unexpired token as authenticated
TierOfAnyStatus(token) ==
  IF _get_token_row(token) = {} THEN 401 ELSE 200

\* The status the helper ends with (200 = returns the tier).
_get_tier_for_token(token) ==
  IF _get_token_row(token) = {} THEN 401
  ELSE IF device_tokens[token].status # "active" THEN 403
  ELSE 200

\* The status _require_user ends with (200 = returns the user).
_require_user(token) ==
  IF token \notin DOMAIN device_tokens THEN 401
  ELSE IF TokenExpired(device_tokens[token]) THEN 401
  ELSE IF device_tokens[token].status # "active" THEN 403
  ELSE IF device_tokens[token].user_id = NoUser THEN 401
  ELSE IF device_tokens[token].user_id \notin DOMAIN users THEN 401
  ELSE 200

_get_user_row_for_token_optional(token) ==
  IF _get_token_row(token) = {} THEN {}
  ELSE IF device_tokens[token].user_id = NoUser THEN {}
  ELSE IF device_tokens[token].user_id \in DOMAIN users
       THEN {device_tokens[token].user_id} ELSE {}

_get_daily_usage(token) ==
  IF <<token, _today_utc>> \in DOMAIN usage_daily
  THEN usage_daily[<<token, _today_utc>>]
  ELSE [prompt_tokens |-> 0, completion_tokens |-> 0, requests |-> 0]

\* an upsert that replaces the counters of an existing row
BumpOverwrites(usage, token, prompt_tokens, completion_tokens) ==
  (<<token, _today_utc>> :> [prompt_tokens |-> prompt_tokens,
                             completion_tokens |-> completion_tokens,
                             requests |-> 1]) @@ usage

_bump_daily_usage(usage, token, prompt_tokens, completion_tokens) ==
  LET key == <<token, _today_utc>> IN
  IF key \in DOMAIN usage
  THEN [usage EXCEPT ![key] =
          [prompt_tokens |-> @.prompt_tokens + prompt_tokens,
           completion_tokens |-> @.completion_tokens + completion_tokens,
           requests |-> @.requests + 1]]
  ELSE usage @@ (key :> [prompt_tokens |-> prompt_tokens,
                         completion_tokens |-> completion_tokens,
                         requests |-> 1])

\* SELECT ... FROM messages WHERE conversation_id=? ORDER BY created_at ASC, rowid ASC
RECURSIVE InsertSorted(_, _)
InsertSorted(sorted, m) ==
  IF sorted = <<>> THEN <<m>>
  ELSE IF Head(sorted).created_at <= m.created_at
       THEN <<Head(sorted)>> \o InsertSorted(Tail(sorted), m)
       ELSE <<m>> \o sorted

RECURSIVE SortByCreated(_)
SortByCreated(rows) ==
  IF rows = <<>> THEN <<>>
  ELSE InsertSorted(SortByCreated(SubSeq(rows, 1, Len(rows) - 1)), rows[Len(rows)])

\* the rows of the conversation in rowid order, without the ORDER BY
HistoryByRowid(msgs, c) == SelectSeq(msgs, LAMBDA m : m.conversation_id = c)

HistoryRows(msgs, c) ==
  SortByCreated(SelectSeq(msgs, LAMBDA m : m.conversation_id = c))

\* a lookup by id alone, whoever owns the row
ExistsConversation(token, c) == c \in DOMAIN conversations

\* SELECT ... FROM conversations WHERE id=? AND device_token=?
OwnsConversation(token, c) ==
  c \in DOMAIN conversations /\ conversations[c].device_token = token

\* -------------------------------------------------------------- requests
IdleReq ==
  [slot |-> 0, n |-> 0, op |-> "none", pc |-> "idle", token |-> UnknownToken, tier |-> "free",
   user_id |-> NoUser, conv |-> UnknownConv, file |-> UnknownFile, ip |-> NoIp, cred |-> "", now |-> 0, status |-> 0, text |-> <<>>, file_ids |-> <<>>,
   forced |-> "", provider |-> "", rows |-> <<>>, prompt_tokens |-> 0, upstream |-> 0,
   content |-> <<>>, charged |-> FALSE, new_token |-> UnknownToken, outbound |-> <<>>, detail |-> "",
   frames |-> <<>>, q |-> <<>>, prod |-> "none", producer_exc |-> FALSE,
   items |-> 0, keepalives |-> 0, parts |-> <<>>, cur |-> <<>>,
   body |-> <<>>, meta |-> <<>>, upload |-> <<>>]

\* ---------------------------------------------------------------- uploads
\* An upload is its bytes and the file name of its multipart part. Bytes are
\* told apart by what the handler looks at (the magic number, whether they
\* decode as UTF-8) and by their data; a name is its stem and its suffix as
\* Path(name).suffix gives it.
ALLOWED_IMAGE_TYPES == {"image/jpeg", "image/png", "image/gif", "image/webp"}
ALLOWED_FILE_TYPES ==
  {"application/pdf", "text/plain", "text/csv", "application/json", "text/markdown"}

MAX_IMAGE_SIZE == 10 * 1024 * 1024
MAX_FILE_SIZE == 20 * 1024 * 1024
\* the length of a payload when nothing else is said, and of what a multipart
\* body holds around the payload of its one part
KiB == 1024
MultipartFraming == 256

Png(data) == [kind |-> "png", data |-> data, size |-> KiB]
Jpeg(data) == [kind |-> "jpeg", data |-> data, size |-> KiB]
Gif(data) == [kind |-> "gif", data |-> data, size |-> KiB]
Webp(data) == [kind |-> "webp", data |-> data, size |-> KiB]
Pdf(data) == [kind |-> "pdf", data |-> data, size |-> KiB]
Utf8Text(data) == [kind |-> "utf8", data |-> data, size |-> KiB]
OpaqueBinary(data) == [kind |-> "binary", data |-> data, size |-> KiB]
NoBytes == [kind |-> "empty", data |-> 0, size |-> 0]
\* the same kind of bytes, size bytes long
OfSize(file_bytes, size) == [file_bytes EXCEPT !.size = size]

\* a limit that its own value already exceeds
ReachesSize(size, max_size) == size >= max_size

\* len(...) > max_size
ExceedsSize(size, max_size) == size > max_size
\* a file name: the directories in front of its last "/" (none in a bare
\* name), and the stem and the suffix of what follows it
ClientFileName(dirs, stem, suffix) == [dirs |-> dirs, stem |-> stem, suffix |-> suffix]
FileName(stem, suffix) == ClientFileName(<<>>, stem, suffix)
\* no filename parameter, or an empty one
NoFileName == ClientFileName(<<>>, "", "")

\* a file name taken as the client sent it
WholeName(filename) == filename

\* os.path.basename
os_path_basename(filename) == [filename EXCEPT !.dirs = <<>>]

\* str.lower() of a suffix
Lower(suffix) ==
  IF suffix = ".PNG" THEN ".png" ELSE IF suffix = ".TXT" THEN ".txt" ELSE suffix

\* hashlib.sha256(file_bytes).hexdigest(): different bytes, different digests
sha256(file_bytes) == <<"sha256", file_bytes>>

\* a type taken from the suffix of the file name
MimeOfSuffix(file_bytes, original_name) ==
  LET suffix == Lower(original_name.suffix) IN
  IF suffix = ".png" THEN "image/png"
  ELSE IF suffix = ".jpg" THEN "image/jpeg"
  ELSE IF suffix = ".txt" THEN "text/plain"
  ELSE "application/octet-stream"

_detect_mime_type(file_bytes, original_name) ==
  LET suffix == Lower(original_name.suffix) IN
  IF file_bytes.kind = "jpeg" THEN "image/jpeg"
  ELSE IF file_bytes.kind = "png" THEN "image/png"
  ELSE IF file_bytes.kind = "gif" THEN "image/gif"
  ELSE IF file_bytes.kind = "webp" THEN "image/webp"
  ELSE IF file_bytes.kind = "pdf" THEN "application/pdf"
  ELSE IF suffix \in {".md", ".markdown"} THEN "text/markdown"
  ELSE IF suffix = ".csv" THEN "text/csv"
  ELSE IF suffix = ".json" THEN "application/json"
  ELSE IF suffix = ".txt" THEN "text/plain"
  ELSE IF file_bytes.kind = "utf8" THEN "text/plain"
  ELSE "application/octet-stream"

preferred ==
  [m \in ALLOWED_IMAGE_TYPES \cup ALLOWED_FILE_TYPES |->
     CASE m = "image/jpeg" -> ".jpg"
       [] m = "image/png" -> ".png"
       [] m = "image/gif" -> ".gif"
       [] m = "image/webp" -> ".webp"
       [] m = "application/pdf" -> ".pdf"
       [] m = "text/plain" -> ".txt"
       [] m = "text/csv" -> ".csv"
       [] m = "application/json" -> ".json"
       [] m = "text/markdown" -> ".md"]

_guess_extension(mime_type, original_name) ==
  LET suffix == Lower(original_name.suffix) IN
  IF suffix # "" THEN suffix
  ELSE IF mime_type \in DOMAIN preferred THEN preferred[mime_type]
  ELSE ".bin"

\* re.fullmatch(r"\.[A-Za-z0-9]{1,10}", extension): a dot and one to ten
\* letters or digits
SuffixesNotMatching == {"", ".tar-gz"}

\* os.path.join(UPLOAD_DIR, f"{sha256_hash}{extension}")
StoredPath(file_bytes, original_name) ==
  LET mime_type == _detect_mime_type(file_bytes, original_name)
      guessed == _guess_extension(mime_type, original_name)
      extension == IF guessed \in SuffixesNotMatching THEN "" ELSE guessed
  IN [sha256_hash |-> sha256(file_bytes), extension |-> extension]

\* the row of an upload
FileRow(c, upload) ==
  [conversation_id |-> c,
   original_name |-> upload.original_name,
   stored_path |-> StoredPath(upload.file_bytes, upload.original_name),
   sha256_hash |-> sha256(upload.file_bytes),
   size_bytes |-> upload.file_bytes.size,
   mime_type |-> _detect_mime_type(upload.file_bytes, upload.original_name)]

Upload(file_bytes, original_name) ==
  [file_bytes |-> file_bytes, original_name |-> original_name]

\* the part named "file" of the multipart body: its file name without
\* directories ("upload.bin" if it has none) and its payload
_extract_file_field_from_multipart(part) ==
  Upload(part.file_bytes,
         os_path_basename(IF part.original_name = NoFileName
                          THEN FileName("upload", ".bin")
                          ELSE part.original_name))

\* the upload the store in use already holds: a scan without a text layer
DefaultUpload == Upload(Pdf(1), FileName("scan", ".pdf"))

\* the same picture under five names, another picture, a text with and
\* without a suffix, bytes of no allowed type, and no bytes
Uploads ==
  { Upload(Png(1), FileName("photo", ".png")),
    Upload(Png(1), FileName("photo", ".PNG")),
    Upload(Png(1), FileName("photo", "")),
    Upload(Png(1), FileName("photo", ".img")),
    Upload(Png(1), FileName("photo", ".tar-gz")),
    Upload(Png(2), FileName("photo", ".png")),
    Upload(Utf8Text(1), FileName("notes", "")),
    Upload(Utf8Text(1), FileName("notes", ".TXT")),
    Upload(OpaqueBinary(1), FileName("blob", "")),
    Upload(NoBytes, FileName("none", ".txt")) }

\* A store in use: the token of a signed-in free user one day before it expires,
\* a max-tier token without a user that never expires, a conversation of each,
\* one upload, and a usage row that leaves the user's token 179 tokens of its
\* daily quota (the persona prompt and a one-token message).
Init ==
  /\ now = StartTime
  /\ users = ("u1" :> [tier |-> "free", last_refresh_at |-> 0])
  /\ device_tokens =
       (1 :> [tier |-> "free", status |-> "active", user_id |-> "u1",
              expires_at |-> StartTime + DaySeconds, note |-> ""])
       @@ (2 :> [tier |-> "max", status |-> "active", user_id |-> NoUser,
                 expires_at |-> 0, note |-> ""])
  /\ conversations =
       (1 :> [device_token |-> 1, title |-> NoTitle,
              created_at |-> StartTime, updated_at |-> StartTime])
       @@ (2 :> [device_token |-> 2, title |-> NoTitle,
                 created_at |-> StartTime, updated_at |-> StartTime])
  /\ messages = <<>>
  /\ conversation_files = (1 :> FileRow(1, DefaultUpload))
  /\ usage_daily =
       (<<1, StartTime \div DaySeconds>> :>
          [prompt_tokens |-> 59000, completion_tokens |-> 821, requests |-> 40])
  /\ ticks = 0
  /\ started = 0
  /\ req = [r \in Slots |-> IdleReq]
  /\ _LOGIN_FAILURES = [ip \in IPs |-> <<>>]
  /\ _RATE_LIMIT_HITS = <<>>
  /\ handled = <<>>
  /\ minted = Cardinality(DOMAIN device_tokens)
  /\ upload_dir = {conversation_files[f].stored_path : f \in DOMAIN conversation_files}

\* The token of the signed-in user as a refresh may find it: never expiring,
\* expiring now or in a second, and with a second less than, exactly, and a
\* second more than the refresh window left; active or disabled.
RefreshExpiries ==
  {0, StartTime, StartTime + 1,
   StartTime + TOKEN_REFRESH_WINDOW_SECONDS - 1,
   StartTime + TOKEN_REFRESH_WINDOW_SECONDS,
   StartTime + TOKEN_REFRESH_WINDOW_SECONDS + 1}

\* The token of the signed-in user over its life: expired, alive for another
\* second (refreshable), and alive with more than the refresh window left.
LifecycleExpiries ==
  {StartTime, StartTime + 1, StartTime + TOKEN_REFRESH_WINDOW_SECONDS + 1}

InitTokenStore(expiries) ==
  /\ now = StartTime
  /\ users = ("u1" :> [tier |-> "free", last_refresh_at |-> 0])
  /\ \E expires_at \in expiries, status \in {"active", "disabled"} :
       device_tokens =
         (1 :> [tier |-> "free", status |-> status, user_id |-> "u1",
                expires_at |-> expires_at, note |-> ""])
         @@ (2 :> [tier |-> "max", status |-> "active", user_id |-> NoUser,
                   expires_at |-> 0, note |-> ""])
  /\ conversations =
       (1 :> [device_token |-> 1, title |-> NoTitle,
              created_at |-> StartTime, updated_at |-> StartTime])
  /\ messages = <<>>
  /\ conversation_files = <<>>
  /\ usage_daily =
       (<<1, StartTime \div DaySeconds>> :>
          [prompt_tokens |-> 59000, completion_tokens |-> 821, requests |-> 40])
  /\ ticks = 0
  /\ started = 0
  /\ req = [r \in Slots |-> IdleReq]
  /\ _LOGIN_FAILURES = [ip \in IPs |-> <<>>]
  /\ _RATE_LIMIT_HITS = <<>>
  /\ handled = <<>>
  /\ minted = Cardinality(DOMAIN device_tokens)
  /\ upload_dir = {conversation_files[f].stored_path : f \in DOMAIN conversation_files}

InitRefresh == InitTokenStore(RefreshExpiries)

InitLifecycle == InitTokenStore(LifecycleExpiries)

\* Failed logins address "a" may have on record when observation starts, as
\* seconds before StartTime: none, four within 40 s, four such that a failure
\* at StartTime is exactly 60 s after the first, and four whose first is older.
PriorFailures ==
  {<<>>, <<40, 30, 20, 10>>, <<60, 30, 20, 10>>, <<70, 30, 20, 10>>}

InitLogin ==
  /\ now = StartTime
  /\ users = ("u1" :> [tier |-> "free", last_refresh_at |-> 0])
  /\ device_tokens =
       (1 :> [tier |-> "free", status |-> "active", user_id |-> "u1",
              expires_at |-> StartTime + DaySeconds, note |-> ""])
  /\ conversations = <<>>
  /\ messages = <<>>
  /\ conversation_files = <<>>
  /\ usage_daily = <<>>
  /\ ticks = 0
  /\ started = 0
  /\ req = [r \in Slots |-> IdleReq]
  /\ \E ago \in PriorFailures :
       _LOGIN_FAILURES = [ip \in IPs |->
         IF ip = "a" THEN [i \in 1..Len(ago) |-> StartTime - ago[i]] ELSE <<>>]
  /\ _RATE_LIMIT_HITS = <<>>
  /\ handled = <<>>
  /\ minted = Cardinality(DOMAIN device_tokens)
  /\ upload_dir = {conversation_files[f].stored_path : f \in DOMAIN conversation_files}


\* time.time() advances
Tick ==
  /\ ticks < MaxTicks
  /\ \E d \in TickSteps : now' = now + d
  /\ ticks' = ticks + 1
  /\ UNCHANGED <<db, started, req, mem>>

\* ------------------------------------------------ handler bookkeeping
TokenInputs == (1..minted) \cup {UnknownToken}
ConvInputs == DOMAIN conversations \cup {UnknownConv}
FileInputs == DOMAIN conversation_files \cup {UnknownFile}

\* A request is taken by the lowest slot that runs no handler, and the response
\* of the handler that ran there before is overwritten; the chat slot of
\* SpecChat runs one handler.
Busy(r) == req[r].pc \notin {"idle", "done", "cancelled"}

CanStart(r) ==
  /\ started < MaxReq
  /\ IF r \in Chats THEN req[r].pc = "idle"
     ELSE /\ ~Busy(r)
          /\ \A q \in Reqs : (r \in Reqs /\ q < r) => Busy(q)

\* uuid.uuid4() / secrets: ids no row has yet
NewId == Cardinality(Reqs) + started + 1

Started(r, op, token, conv) ==
  [IdleReq EXCEPT !.slot = r, !.n = started + 1, !.op = op, !.token = token,
                  !.conv = conv, !.now = now]

\* The handler returns (or raises HTTPException) with this status.
\* Responses of the environment slot are not kept.
Respond(rec, status, detail) ==
  IF rec.slot = EnvSlot THEN IdleReq
  ELSE [rec EXCEPT !.pc = "done", !.status = status, !.detail = detail]

AuthDetail(st) == IF st = 401 THEN "invalid token" ELSE "token disabled"

\* ------------------------------------------- single-segment handlers
create_conversation(r) ==
  /\ CanStart(r)
  /\ \E token \in TokenInputs, system_prompt \in {<<>>, <<"s">>} :
       LET st == _get_tier_for_token(token)
           id == NewId
           rec == Started(r, "create", token, id)
       IN IF st # 200
          THEN /\ req' = [req EXCEPT ![r] = Respond(rec, st, AuthDetail(st))]
               /\ UNCHANGED db
          ELSE /\ conversations' = conversations @@
                     (id :> [device_token |-> token, title |-> NoTitle,
                             created_at |-> now, updated_at |-> now])
               /\ messages' =
                     IF system_prompt # <<>>
                     THEN Append(messages, [id |-> <<started + 1, "system">>, conversation_id |-> id,
                                            role |-> "system", content |-> system_prompt,
                                            file_ids |-> <<>>, created_at |-> now])
                     ELSE messages
               /\ req' = [req EXCEPT ![r] = Respond(rec, 200, "")]
               /\ UNCHANGED <<users, device_tokens, conversation_files, usage_daily>>
  /\ started' = started + 1
  /\ UNCHANGED <<now, ticks, mem>>

list_conversations(r) ==
  /\ CanStart(r)
  /\ \E token \in TokenInputs :
       LET st == _get_tier_for_token(token)
           rec == Started(r, "list", token, UnknownConv)
       IN req' = [req EXCEPT ![r] =
                    IF st # 200 THEN Respond(rec, st, AuthDetail(st))
                    ELSE Respond(rec, 200, "")]
  /\ started' = started + 1
  /\ UNCHANGED <<db, now, ticks, mem>>

get_conversation(r) ==
  /\ CanStart(r)
  /\ \E token \in TokenInputs, c \in ConvInputs :
       LET st == _get_tier_for_token(token)
           rec == Started(r, "read", token, c)
       IN req' = [req EXCEPT ![r] =
                    IF st # 200 THEN Respond(rec, st, AuthDetail(st))
                    ELSE IF ~OwnsConversation(token, c)
                         THEN Respond(rec, 404, "conversation not found")
                         ELSE Respond([rec EXCEPT !.rows = HistoryRows(messages, c)], 200, "")]
  /\ started' = started + 1
  /\ UNCHANGED <<db, now, ticks, mem>>

delete_conversation(r) ==
  /\ CanStart(r)
  /\ \E token \in TokenInputs, c \in ConvInputs :
       LET st == _get_tier_for_token(token)
           rec == Started(r, "delete", token, c)
       IN IF st # 200
          THEN /\ req' = [req EXCEPT ![r] = Respond(rec, st, AuthDetail(st))]
               /\ UNCHANGED db
          ELSE IF ~OwnsConversation(token, c)
          THEN /\ req' = [req EXCEPT ![r] = Respond(rec, 404, "conversation not found")]
               /\ UNCHANGED db
          ELSE /\ messages' = SelectSeq(messages, LAMBDA m : m.conversation_id # c)
               /\ conversation_files' =
                     [f \in {g \in DOMAIN conversation_files :
                               conversation_files[g].conversation_id # c}
                        |-> conversation_files[f]]
               /\ conversations' =
                     [d \in DOMAIN conversations \ {c} |-> conversations[d]]
               /\ req' = [req EXCEPT ![r] = Respond(rec, 200, "")]
               /\ UNCHANGED <<users, device_tokens, usage_daily>>
  /\ started' = started + 1
  /\ UNCHANGED <<now, ticks, mem>>

\* _handle_file_upload_request, after the route's _get_tier_for_token
_handle_file_upload_request(r, uploads) ==
  /\ CanStart(r)
  /\ \E token \in TokenInputs, c \in ConvInputs, part \in uploads :
       LET st == _get_tier_for_token(token)
           rec == [Started(r, "upload", token, c) EXCEPT !.upload = part]
           id == NewId
           upload == _extract_file_field_from_multipart(part)
           mime_type == _detect_mime_type(upload.file_bytes, upload.original_name)
           stored_path == StoredPath(upload.file_bytes, upload.original_name)
       IN IF st # 200
          THEN /\ req' = [req EXCEPT ![r] = Respond(rec, st, AuthDetail(st))]
               /\ UNCHANGED <<db, upload_dir>>
          ELSE IF ExceedsSize(part.file_bytes.size + MultipartFraming,
                              MAX_FILE_SIZE + 2 * 1024 * 1024)
          THEN /\ req' = [req EXCEPT ![r] = Respond(rec, 413, "file too large")]
               /\ UNCHANGED <<db, upload_dir>>
          ELSE IF upload.file_bytes.size = 0
          THEN /\ req' = [req EXCEPT ![r] = Respond(rec, 400, "empty file not allowed")]
               /\ UNCHANGED <<db, upload_dir>>
          ELSE IF mime_type \notin ALLOWED_IMAGE_TYPES \cup ALLOWED_FILE_TYPES
          THEN /\ req' = [req EXCEPT ![r] = Respond(rec, 415, "unsupported file type")]
               /\ UNCHANGED <<db, upload_dir>>
          ELSE IF ExceedsSize(upload.file_bytes.size,
                              IF mime_type \in ALLOWED_IMAGE_TYPES
                              THEN MAX_IMAGE_SIZE ELSE MAX_FILE_SIZE)
          THEN /\ req' = [req EXCEPT ![r] = Respond(rec, 413, "file too large")]
               /\ UNCHANGED <<db, upload_dir>>
          ELSE \* the file is written, if no file has its path, before the lookup
               /\ upload_dir' = upload_dir \cup {stored_path}
               /\ IF ~OwnsConversation(token, c)
                  THEN /\ req' = [req EXCEPT ![r] =
                                    Respond(rec, 404, "conversation not found")]
                       /\ UNCHANGED db
                  ELSE /\ conversation_files' =
                            conversation_files @@ (id :> FileRow(c, upload))
                       /\ req' = [req EXCEPT ![r] =
                                    Respond(rec, 200, "")]
                       /\ UNCHANGED <<users, device_tokens, conversations, messages,
                                      usage_daily>>
  /\ started' = started + 1
  /\ UNCHANGED <<now, ticks, _LOGIN_FAILURES, _RATE_LIMIT_HITS, minted, handled>>

upload_conversation_file(r) == _handle_file_upload_request(r, {DefaultUpload})

get_uploaded_file(r) ==
  /\ CanStart(r)
  /\ \E token \in TokenInputs, f \in FileInputs :
       LET st == _get_tier_for_token(token)
           rec == [Started(r, "file", token, UnknownConv) EXCEPT !.file = f]
           found == /\ f \in DOMAIN conversation_files
                    /\ OwnsConversation(token, conversation_files[f].conversation_id)
       IN req' = [req EXCEPT ![r] =
                    IF st # 200 THEN Respond(rec, st, AuthDetail(st))
                    ELSE IF ~found THEN Respond(rec, 404, "file not found")
                    ELSE Respond(rec, 200, "")]
  /\ started' = started + 1
  /\ UNCHANGED <<db, now, ticks, mem>>

\* ------------------------------------------------------ /v1/auth/refresh
\* a refresh that does not look at the status of the old token
StatusIgnored(row) == FALSE

\* (token_row["status"] or "") != "active"
NotActive(row) == row.status # "active"

\* (exp - now) >= TOKEN_REFRESH_WINDOW_SECONDS
OutsideRefreshWindow(expires_at, t) ==
  (expires_at - t) >= TOKEN_REFRESH_WINDOW_SECONDS

\* The status of the checks on the row read at the start of the handler.
RefreshCheck(token, t) ==
  IF token \notin DOMAIN device_tokens THEN 401
  ELSE LET row == device_tokens[token] IN
       IF NotActive(row) THEN 403
       ELSE IF row.user_id = NoUser THEN 401
       ELSE IF row.expires_at <= 0 THEN 400
       ELSE IF t >= row.expires_at THEN 401
       ELSE IF OutsideRefreshWindow(row.expires_at, t) THEN 400
       ELSE IF row.user_id \notin DOMAIN users THEN 401
       ELSE 200

RefreshDetail(token, t) ==
  IF token \notin DOMAIN device_tokens THEN "invalid token"
  ELSE LET row == device_tokens[token] IN
       IF NotActive(row) THEN "token disabled"
       ELSE IF row.user_id = NoUser THEN "token not associated with user"
       ELSE IF row.expires_at <= 0 THEN "token is not refreshable"
       ELSE IF t >= row.expires_at THEN "token expired"
       ELSE IF OutsideRefreshWindow(row.expires_at, t)
            THEN "refresh only allowed in the last 7 days"
       ELSE "user not found"

\* secrets.token_bytes(24): a token that was never issued before
_gen_device_token == minted + 1

_mint_device_token_for_user(tokens, candidate, user_id, tier, t, expires_at) ==
  tokens @@ (candidate :> [tier |-> tier, status |-> "active", user_id |-> user_id,
                           expires_at |-> expires_at, note |-> ""])

\* UPDATE conversations SET device_token=new WHERE device_token=old
RotateConversations(convs, old, new) ==
  [c \in DOMAIN convs |->
     IF convs[c].device_token = old THEN [convs[c] EXCEPT !.device_token = new]
     ELSE convs[c]]

\* the refresh without its UPDATE of usage_daily
RotateUsageSkipped(usage, old, new) == usage

\* a refresh that re-keys the rows of the old token and loses their counts
RotateUsageReset(usage, old, new) ==
  LET rekey(k) == IF k[1] = old THEN <<new, k[2]>> ELSE k
  IN  [k \in {rekey(j) : j \in DOMAIN usage} |->
         IF k[1] = new
         THEN [prompt_tokens |-> 0, completion_tokens |-> 0, requests |-> 0]
         ELSE usage[k]]

\* UPDATE usage_daily SET token=new WHERE token=old
RotateUsage(usage, old, new) ==
  LET rekey(k) == IF k[1] = old THEN <<new, k[2]>> ELSE k
      unkey(k) == IF k[1] = new /\ <<old, k[2]>> \in DOMAIN usage
                  THEN <<old, k[2]>> ELSE k
  IN  [k \in {rekey(j) : j \in DOMAIN usage} |-> usage[unkey(k)]]

\* UPDATE device_tokens SET status='disabled', note=?, expires_at=? WHERE token=old
DisableRotated(tokens, old, t) ==
  IF old \notin DOMAIN tokens THEN tokens
  ELSE [tokens EXCEPT ![old] = [@ EXCEPT !.status = "disabled",
                                         !.note = "rotated_by_refresh",
                                         !.expires_at = t]]

\* UPDATE users SET last_refresh_at=?, updated_at=? WHERE id=?
StampRefresh(us, user_id, t) ==
  IF user_id \in DOMAIN us THEN [us EXCEPT ![user_id].last_refresh_at = t] ELSE us

\* auth_refresh up to the SELECTs and the checks on them
auth_refresh_read(r) ==
  /\ CanStart(r)
  /\ \E old_token \in TokenInputs :
       LET st == RefreshCheck(old_token, now)
           rec == Started(r, "refresh", old_token, UnknownConv)
       IN req' = [req EXCEPT ![r] =
            IF st # 200 THEN Respond(rec, st, RefreshDetail(old_token, now))
            ELSE [rec EXCEPT !.pc = "minting",
                             !.user_id = device_tokens[old_token].user_id,
                             !.tier = users[device_tokens[old_token].user_id].tier]]
  /\ started' = started + 1
  /\ UNCHANGED <<db, now, ticks, mem>>

\* auth_refresh: the write transaction (mint, rewrite, disable, stamp, commit)
auth_refresh_commit(r) ==
  /\ req[r].pc = "minting"
  /\ LET old_token == req[r].token
         t == req[r].now
         new_token == _gen_device_token
         user_id == req[r].user_id
     IN /\ device_tokens' =
             DisableRotated(
               _mint_device_token_for_user(device_tokens, new_token, user_id,
                                           req[r].tier, t, t + TOKEN_TTL_SECONDS),
               old_token, t)
        /\ conversations' = RotateConversations(conversations, old_token, new_token)
        /\ usage_daily' = RotateUsage(usage_daily, old_token, new_token)
        /\ users' = StampRefresh(users, user_id, t)
        /\ req' = [req EXCEPT ![r] = Respond([@ EXCEPT !.new_token = new_token], 200, "")]
  /\ minted' = minted + 1
  /\ UNCHANGED <<messages, conversation_files, now, ticks, started,
                 _LOGIN_FAILURES, _RATE_LIMIT_HITS, handled, upload_dir>>

\* auth_refresh: a store error inside the write transaction; the connection is
\* closed without a commit
auth_refresh_abort(r) ==
  /\ req[r].pc = "minting"
  /\ req' = [req EXCEPT ![r] = Respond(@, 500, "Internal Server Error")]
  /\ UNCHANGED <<db, now, ticks, mem, started>>

\* ------------------------------------------------- chat: shared pieces
\* <<message, file_ids names an unknown file>>
ChatInputs ==
  {<<<<>>, <<>>>>} \cup {<<t, <<>>>> : t \in Texts}
    \cup {<<<<"h", "i">>, <<f>>>> : f \in FileInputs}

\* body checks of conversation_chat / conversation_chat_stream ("" = passes)
ValidateChatBody(user_text, file_ids) ==
  IF user_text = <<>> /\ file_ids = <<>>
  THEN "message must be non-empty when file_ids is empty"
  ELSE ""

\* _fetch_conversation_files_by_ids: the ids that are no conversation_files row
\* of this conversation (HTTPException 400 when there is one)
MissingFileIds(c, file_ids) ==
  SelectSeq(file_ids, LAMBDA f : ~(/\ f \in DOMAIN conversation_files
                                   /\ conversation_files[f].conversation_id = c))

\* The stored content is kept as its two parts, the text and the file ids of the
\* [[MESSAGE_META]] prefix. The uploads of this model are files without
\* extractable text that are no images, so the content sent upstream for a
\* message with attachments is its text.
UserMessage(r) ==
  [id |-> <<req[r].n, "user">>, conversation_id |-> req[r].conv, role |-> "user",
   content |-> req[r].text, file_ids |-> req[r].file_ids, created_at |-> req[r].now]

AssistantMessage(r, content, t) ==
  [id |-> <<req[r].n, "assistant">>, conversation_id |-> req[r].conv, role |-> "assistant",
   content |-> content, file_ids |-> <<>>, created_at |-> t]

\* UPDATE conversations SET updated_at=?, title=CASE WHEN title IS NULL ... WHERE id=? AND device_token=?
TouchConversation(convs, c, token, t, title_candidate) ==
  [d \in DOMAIN convs |->
     IF d = c /\ convs[d].device_token = token
     THEN [convs[d] EXCEPT !.updated_at = t,
                           !.title = IF @ = NoTitle THEN title_candidate ELSE @]
     ELSE convs[d]]

\* rows of the history SELECT as OpenAI messages
_build_oai_messages_from_rows(rows) ==
  [i \in 1..Len(rows) |-> [role |-> rows[i].role, content |-> rows[i].content]]

\* "Step 1" without its writes
PersistUserTurnSkipped(r) == UNCHANGED db

\* str(original_name): one item per part of the name; the names of this
\* model hold no whitespace and fewer than 50 characters
NameText(original_name) ==
  SelectSeq(original_name.dirs \o <<original_name.stem, original_name.suffix>>,
            LAMBDA part : part # "")

\* title_seed = user_text or (attached_files[0]["original_name"] if attached_files else "")
TitleSeed(user_text, file_ids) ==
  IF user_text # <<>> THEN user_text
  ELSE IF file_ids # <<>> THEN NameText(conversation_files[file_ids[1]].original_name)
  ELSE <<>>

\* "Step 1": ownership check, INSERT of the user message, title, commit,
\* then the history SELECT on the same connection
PersistUserTurn(r) ==
  /\ messages' = Append(messages, UserMessage(r))
  /\ conversations' = TouchConversation(conversations, req[r].conv, req[r].token,
                                        req[r].now,
                                        _title_from_user_message(TitleSeed(req[r].text, req[r].file_ids)))
  /\ UNCHANGED <<users, device_tokens, conversation_files, usage_daily>>

HistoryAfterPersist(r) ==
  _build_oai_messages_from_rows(HistoryRows(Append(messages, UserMessage(r)), req[r].conv))

\* persona injection (the one-shot handler has done it on the request body)
\* and truncation, as _call_llm / stream_gen send the messages upstream
OutboundMessages(r) ==
  LET msgs == IF req[r].op # "oneshot" /\ _get_user_row_for_token_optional(req[r].token) # {}
              THEN _inject_persona_system_message(req[r].rows)
              ELSE req[r].rows
  IN  _truncate_messages_to_fit(msgs, LIMITS[req[r].tier].max_context_tokens)

PromptTokens(r) == _messages_approx_tokens(OutboundMessages(r))

\* the gate with the completion tokens of the day left out of the sum
QuotaExceededPromptOnly(token, tier, prompt_tokens) ==
  _get_daily_usage(token).prompt_tokens + prompt_tokens > LIMITS[tier].daily_tokens

QuotaExceeded(token, tier, prompt_tokens) ==
  LET u == _get_daily_usage(token)
      used_total == u.prompt_tokens + u.completion_tokens
  IN  used_total + prompt_tokens > LIMITS[tier].daily_tokens

ProviderFor(tier, forced) ==
  IF forced # "" THEN forced
  ELSE IF tier = "max" THEN "claude" ELSE "kimi"

\* a gate that takes every provider for a free-tier provider
ForcedTierFree(forced) == "free"

ForcedTier(forced) ==
  IF forced = "deepseek" THEN "free" ELSE IF forced = "kimi" THEN "pro" ELSE "max"

\* -------------------------------- /v1/conversations/{id}/chat (non-stream)
conversation_chat_request(r, inputs) ==
  /\ CanStart(r)
  /\ \E token \in TokenInputs, c \in ConvInputs, inp \in inputs :
       LET st == _get_tier_for_token(token)
           user_text == Strip(inp[1])
           rec == [Started(r, "chat", token, c) EXCEPT !.text = user_text, !.file_ids = inp[2]]
           bad == ValidateChatBody(user_text, inp[2])
       IN req' = [req EXCEPT ![r] =
            IF st # 200 THEN Respond(rec, st, AuthDetail(st))
            ELSE IF bad # "" THEN Respond(rec, 400, bad)
            ELSE [rec EXCEPT !.pc = "authed", !.tier = device_tokens[token].tier]]
  /\ started' = started + 1
  /\ UNCHANGED <<db, now, ticks, mem>>

conversation_chat_begin(r) == conversation_chat_request(r, ChatInputs)

conversation_chat_persist(r) ==
  /\ req[r].op = "chat" /\ req[r].pc = "authed"
  /\ IF ~OwnsConversation(req[r].token, req[r].conv)
     THEN /\ req' = [req EXCEPT ![r] = Respond(@, 404, "conversation not found")]
          /\ UNCHANGED db
     ELSE IF MissingFileIds(req[r].conv, req[r].file_ids) # <<>>
     THEN /\ req' = [req EXCEPT ![r] = Respond(@, 400, "unknown file_id(s)")]
          /\ UNCHANGED db
     ELSE /\ PersistUserTurn(r)
          /\ req' = [req EXCEPT ![r] = [@ EXCEPT !.pc = "persisted",
                                                 !.rows = HistoryAfterPersist(r)]]
  /\ UNCHANGED <<now, ticks, mem, started>>

\* _call_llm up to the quota gate
_call_llm_gate(r) ==
  /\ req[r].op \in {"chat", "oneshot"} /\ req[r].pc = "persisted"
  /\ LET prompt_tokens == PromptTokens(r) IN
     req' = [req EXCEPT ![r] =
       IF QuotaExceeded(req[r].token, req[r].tier, prompt_tokens)
       THEN Respond(@, 429, "daily quota exceeded")
       ELSE [@ EXCEPT !.pc = "gated", !.prompt_tokens = prompt_tokens]]
  /\ UNCHANGED <<db, now, ticks, mem, started>>

\* _call_llm: the upstream request and, on success, _bump_daily_usage
_call_llm_upstream(r) ==
  /\ req[r].op \in {"chat", "oneshot"} /\ req[r].pc = "gated"
  /\ \/ \E content \in UpstreamContents, completion_tokens \in UpstreamCompletionTokens :
          /\ usage_daily' = _bump_daily_usage(usage_daily, req[r].token,
                                              req[r].prompt_tokens, completion_tokens)
          /\ req' = [req EXCEPT ![r] =
               IF req[r].op = "oneshot"
               THEN Respond([@ EXCEPT !.upstream = 1, !.content = content,
                                      !.provider = ProviderFor(req[r].tier, req[r].forced),
                                      !.charged = TRUE], 200, "")
               ELSE [@ EXCEPT !.pc = "answered", !.upstream = 1, !.content = content,
                              !.provider = ProviderFor(req[r].tier, req[r].forced),
                              !.charged = TRUE]]
     \/ /\ req' = [req EXCEPT ![r] =
               Respond([@ EXCEPT !.upstream = 1,
                                 !.provider = ProviderFor(req[r].tier, req[r].forced)],
                       UpstreamFailStatus, "upstream error")]
        /\ UNCHANGED usage_daily
  /\ UNCHANGED <<users, device_tokens, conversations, messages, conversation_files,
                 now, ticks, mem, started>>

\* "Step 8/9": INSERT of the assistant message, updated_at, commit, response
conversation_chat_save(r) ==
  /\ req[r].op = "chat" /\ req[r].pc = "answered"
  /\ messages' = Append(messages, AssistantMessage(r, req[r].content, now))
  /\ conversations' = TouchConversation(conversations, req[r].conv, req[r].token, now, NoTitle)
  /\ req' = [req EXCEPT ![r] = Respond(@, 200, "")]
  /\ UNCHANGED <<users, device_tokens, conversation_files, usage_daily,
                 now, ticks, mem, started>>

\* ----------------------------------------- /v1/chat/completions (one-shot)
_handle_chat_completions(r) ==
  /\ CanStart(r)
  /\ \E token \in TokenInputs, forced \in ForcedProviders, text \in Texts :
       LET st == _get_tier_for_token(token)
           rec == [Started(r, "oneshot", token, UnknownConv) EXCEPT !.forced = forced]
           body == <<[role |-> "user", content |-> text]>>
       IN req' = [req EXCEPT ![r] =
            IF st # 200 THEN Respond(rec, st, AuthDetail(st))
            ELSE IF forced # "" /\
                    TIER_LEVEL[ForcedTier(forced)] > TIER_LEVEL[device_tokens[token].tier]
                 THEN Respond(rec, 403, "tier not allowed")
            ELSE [rec EXCEPT !.pc = "persisted", !.tier = device_tokens[token].tier,
                             !.rows = IF _get_user_row_for_token_optional(token) # {}
                                      THEN _inject_persona_system_message(body)
                                      ELSE body]]
  /\ started' = started + 1
  /\ UNCHANGED <<db, now, ticks, mem>>

\* ------------------------- /v1/conversations/{id}/chat/stream (SSE stream)
\* the error event sent by the handler and again by the generator
_sse_error_twice(message) ==
  <<[error |-> message, done |-> TRUE], [error |-> message, done |-> TRUE]>>

_sse_error_once(message) == <<[error |-> message, done |-> TRUE]>>

\* _gen_internal_error and the last handler of stream_gen
InternalErrorFrame == [error |-> "Internal error"]

Sentinel == [kind |-> "sentinel", val |-> <<>>]
StrItem(d) == [kind |-> "str", val |-> d]

\* The response is a finished event stream whose frames are these.
StreamEnds(rec, frames) ==
  [rec EXCEPT !.pc = "done", !.status = 200, !.frames = rec.frames \o frames]

conversation_chat_stream_request(r, inputs) ==
  /\ CanStart(r)
  /\ \E token \in TokenInputs, c \in ConvInputs, inp \in inputs :
       LET st == _get_tier_for_token(token)
           user_text == Strip(inp[1])
           rec == [Started(r, "stream", token, c) EXCEPT !.text = user_text, !.file_ids = inp[2]]
           bad == ValidateChatBody(user_text, inp[2])
       IN req' = [req EXCEPT ![r] =
            IF st # 200 THEN Respond(rec, st, AuthDetail(st))
            ELSE IF bad # "" THEN StreamEnds(rec, _sse_error_once(bad))
            ELSE [rec EXCEPT !.pc = "authed", !.tier = device_tokens[token].tier]]
  /\ started' = started + 1
  /\ UNCHANGED <<db, now, ticks, mem>>

conversation_chat_stream_begin(r) == conversation_chat_stream_request(r, ChatInputs)

conversation_chat_stream_persist(r) ==
  /\ req[r].op = "stream" /\ req[r].pc = "authed"
  /\ IF ~OwnsConversation(req[r].token, req[r].conv)
     THEN /\ req' = [req EXCEPT ![r] =
                       StreamEnds(@, _sse_error_once("conversation not found"))]
          /\ UNCHANGED db
     ELSE IF MissingFileIds(req[r].conv, req[r].file_ids) # <<>>
     THEN \* HTTPException(400) of _fetch_conversation_files_by_ids, caught by "except Exception"
          /\ req' = [req EXCEPT ![r] = StreamEnds(@, <<InternalErrorFrame>>)]
          /\ UNCHANGED db
     ELSE /\ PersistUserTurn(r)
          /\ req' = [req EXCEPT ![r] = [@ EXCEPT !.pc = "persisted",
                                                 !.rows = HistoryAfterPersist(r)]]
  /\ UNCHANGED <<now, ticks, mem, started>>

\* stream_gen from its start to the creation of the producer task (or, for the
\* native Anthropic API, to the await of the non-stream upstream call)
stream_gen_gate(r) ==
  /\ req[r].op = "stream" /\ req[r].pc = "persisted"
  /\ LET prompt_tokens == PromptTokens(r)
         provider == ProviderFor(req[r].tier, "")
     IN req' = [req EXCEPT ![r] =
          IF QuotaExceeded(req[r].token, req[r].tier, prompt_tokens)
          THEN StreamEnds(@, <<[error |-> "daily quota exceeded", done |-> TRUE]>>)
          ELSE IF provider = "claude" /\ CLAUDE_BASE_URL = ""
          THEN [@ EXCEPT !.pc = "native", !.prompt_tokens = prompt_tokens]
          ELSE [@ EXCEPT !.pc = "draining", !.prompt_tokens = prompt_tokens,
                         !.prod = "running"]]
  /\ UNCHANGED <<db, now, ticks, mem, started>>

\* native Anthropic API: _call_anthropic_messages returns or raises, then _one_shot
stream_gen_native(r) ==
  /\ req[r].op = "stream" /\ req[r].pc = "native"
  /\ \/ \E content \in NativeContents :
          req' = [req EXCEPT ![r] = [@ EXCEPT !.pc = "draining", !.upstream = 1,
                                              !.prod = "oneshot", !.content = content]]
     \/ req' = [req EXCEPT ![r] = StreamEnds([@ EXCEPT !.upstream = 1], <<InternalErrorFrame>>)]
  /\ UNCHANGED <<db, now, ticks, mem, started>>

\* _producer: one upstream delta put on the queue (the first iteration sends the request)
_producer_put(r) ==
  /\ req[r].prod = "running" /\ req[r].items < MaxItems
  /\ \E d \in StreamItems :
       req' = [req EXCEPT ![r] = [@ EXCEPT !.q = Append(@, StrItem(d)),
                                           !.items = @ + 1, !.upstream = 1]]
  /\ UNCHANGED <<db, now, ticks, mem, started>>

\* _producer: the upstream stream ends, "finally" puts the sentinel
_producer_end(r) ==
  /\ req[r].prod = "running"
  /\ req' = [req EXCEPT ![r] = [@ EXCEPT !.q = Append(@, Sentinel), !.prod = "finished",
                                         !.upstream = 1]]
  /\ UNCHANGED <<db, now, ticks, mem, started>>

\* _producer: the upstream raises, producer_exc is set, "finally" puts the sentinel
_producer_fail(r) ==
  /\ req[r].prod = "running"
  /\ req' = [req EXCEPT ![r] = [@ EXCEPT !.q = Append(@, Sentinel), !.prod = "finished",
                                         !.producer_exc = TRUE, !.upstream = 1]]
  /\ UNCHANGED <<db, now, ticks, mem, started>>

\* _producer over _one_shot(): the whole reply, then the sentinel
_producer_one_shot(r) ==
  /\ req[r].prod = "oneshot"
  /\ req' = [req EXCEPT ![r] = [@ EXCEPT !.q = @ \o <<StrItem(req[r].content), Sentinel>>,
                                         !.prod = "finished"]]
  /\ UNCHANGED <<db, now, ticks, mem, started>>

\* the yield without assistant_parts.append(ch)
EmitCharUnrecorded(rec, ch, rest) ==
  [rec EXCEPT !.cur = rest, !.frames = Append(@, [delta |-> ch, done |-> FALSE])]

\* consumer: one character of the current item: assistant_parts.append(ch); yield
EmitChar(rec, ch, rest) ==
  [rec EXCEPT !.parts = Append(@, ch), !.cur = rest,
              !.frames = Append(@, [delta |-> ch, done |-> FALSE])]

\* a timeout of q.get() that is let out of the loop: "finally" cancels the
\* producer and the last handler of stream_gen sends the error frame
stream_gen_timeout_raises(r) ==
  /\ req[r].pc = "draining" /\ req[r].cur = <<>> /\ req[r].q = <<>>
  /\ req[r].keepalives < MaxKeepalive
  /\ req' = [req EXCEPT ![r] =
       StreamEnds([@ EXCEPT !.keepalives = @ + 1, !.prod = "cancelled"],
                  <<InternalErrorFrame>>)]
  /\ UNCHANGED <<db, now, ticks, mem, started>>

\* consumer: q.get() times out after 15 s
stream_gen_keepalive(r) ==
  /\ req[r].pc = "draining" /\ req[r].cur = <<>> /\ req[r].q = <<>>
  /\ req[r].keepalives < MaxKeepalive
  /\ req' = [req EXCEPT ![r] = [@ EXCEPT !.frames = Append(@, [comment |-> "keepalive"]),
                                         !.keepalives = @ + 1]]
  /\ UNCHANGED <<db, now, ticks, mem, started>>

\* consumer: q.get() returns an item
stream_gen_get(r) ==
  /\ req[r].pc = "draining" /\ req[r].cur = <<>> /\ req[r].q # <<>>
  /\ LET item == Head(req[r].q)
         rec == [req[r] EXCEPT !.q = Tail(@)]
     IN req' = [req EXCEPT ![r] =
          IF item = Sentinel
          THEN \* break; finally: task.cancel(), await task; then producer_exc
               IF rec.producer_exc
               THEN StreamEnds(rec, <<InternalErrorFrame>>)
               ELSE [rec EXCEPT !.pc = "joined", !.content = rec.parts]
          ELSE IF item.val = <<>> THEN rec
          ELSE EmitChar(rec, Head(item.val), Tail(item.val))]
  /\ UNCHANGED <<db, now, ticks, mem, started>>

\* consumer: resumed after a yield inside "for ch in item"
stream_gen_yield(r) ==
  /\ req[r].pc = "draining" /\ req[r].cur # <<>>
  /\ req' = [req EXCEPT ![r] = EmitChar(@, Head(@.cur), Tail(@.cur))]
  /\ UNCHANGED <<db, now, ticks, mem, started>>

\* the final frame sent without the INSERT before it
stream_gen_save_skipped(r) ==
  /\ req[r].op = "stream" /\ req[r].pc = "joined"
  /\ req' = [req EXCEPT ![r] = [@ EXCEPT !.pc = "saved"]]
  /\ UNCHANGED <<db, now, ticks, mem, started>>

\* INSERT of the assistant message, updated_at, commit
stream_gen_save(r) ==
  /\ req[r].op = "stream" /\ req[r].pc = "joined"
  /\ messages' = Append(messages, AssistantMessage(r, req[r].content, now))
  /\ conversations' = TouchConversation(conversations, req[r].conv, req[r].token, now, NoTitle)
  /\ req' = [req EXCEPT ![r] = [@ EXCEPT !.pc = "saved"]]
  /\ UNCHANGED <<users, device_tokens, conversation_files, usage_daily,
                 now, ticks, mem, started>>

\* _bump_daily_usage, then the final frame
stream_gen_done(r) ==
  /\ req[r].op = "stream" /\ req[r].pc = "saved"
  /\ usage_daily' = _bump_daily_usage(usage_daily, req[r].token, req[r].prompt_tokens,
                                      _approx_tokens(req[r].content))
  /\ req' = [req EXCEPT ![r] =
       StreamEnds([@ EXCEPT !.charged = TRUE],
                  <<[delta |-> "", done |-> TRUE, message_id |-> <<req[r].n, "assistant">>,
                     content |-> req[r].content]>>)]
  /\ UNCHANGED <<users, device_tokens, conversations, messages, conversation_files,
                 now, ticks, mem, started>>

\* a store error (sqlite3.Error) in a write segment of a chat handler: the
\* connection is closed without a commit
store_failure(r) ==
  /\ \/ req[r].op \in {"chat", "stream"} /\ req[r].pc = "authed"
     \/ req[r].op = "stream" /\ req[r].pc \in {"joined", "saved"}
  /\ req' = [req EXCEPT ![r] =
       IF req[r].op = "chat" THEN Respond(@, 500, "Internal Server Error")
       ELSE StreamEnds(@, <<InternalErrorFrame>>)]
  /\ UNCHANGED <<db, now, ticks, mem, started>>

\* a generator without the "finally" around its loop
ProducerLeftRunning(prod) == prod

\* "finally: task.cancel(); await task" when the generator is cancelled or closed
CancelProducer(prod) == IF prod \in {"running", "oneshot"} THEN "cancelled" ELSE prod

\* the client goes away: the generator is cancelled at the await or yield it waits in
client_disconnect(r) ==
  /\ req[r].op = "stream" /\ req[r].pc \in {"native", "draining", "joined", "saved"}
  /\ req' = [req EXCEPT ![r] = [@ EXCEPT !.pc = "cancelled",
                                         !.prod = CancelProducer(@)]]
  /\ UNCHANGED <<db, now, ticks, mem, started>>

StreamSegments(r) ==
  \/ conversation_chat_stream_begin(r)
  \/ conversation_chat_stream_persist(r)
  \/ stream_gen_gate(r)
  \/ stream_gen_native(r)
  \/ _producer_put(r)
  \/ _producer_end(r)
  \/ _producer_fail(r)
  \/ _producer_one_shot(r)
  \/ stream_gen_keepalive(r)
  \/ stream_gen_get(r)
  \/ stream_gen_yield(r)
  \/ stream_gen_save(r)
  \/ stream_gen_done(r)
  \/ client_disconnect(r)

Stream(r) == StreamSegments(r) \/ store_failure(r)

Chat(r) ==
  \/ conversation_chat_begin(r)
  \/ conversation_chat_persist(r)
  \/ _call_llm_gate(r)
  \/ _call_llm_upstream(r)
  \/ conversation_chat_save(r)
  \/ _handle_chat_completions(r)

\* ----------------------------------------------------- /v1/auth/login
\* seconds pass between two login attempts or between the segments of one
Elapse ==
  /\ ticks < MaxElapse
  /\ \E d \in ElapseSteps : now' = now + d
  /\ ticks' = ticks + 1
  /\ UNCHANGED <<db, started, req, mem>>

\* a pruning that keeps the failure window only, not the lockout horizon
PruneToWindow(ts, t) == SelectSeq(ts, LAMBDA x : x >= t - _LOGIN_FAIL_WINDOW_SECS)

\* ts = [t for t in ts if t >= cutoff]
PruneFailures(ts, t) ==
  SelectSeq(ts, LAMBDA x : x >= t - (_LOGIN_LOCKOUT_SECS + _LOGIN_FAIL_WINDOW_SECS))

SetMax(S) == CHOOSE m \in S : \A x \in S : x <= m

\* lockout_until of _is_login_rate_limited, over the pruned list
LockoutUntil(ts) ==
  LET ends == {ts[i] + _LOGIN_LOCKOUT_SECS :
                 i \in {j \in _LOGIN_FAILS_PER_MINUTE..Len(ts) :
                          ts[j] - ts[j - (_LOGIN_FAILS_PER_MINUTE - 1)]
                            <= _LOGIN_FAIL_WINDOW_SECS}}
  IN SetMax(ends \cup {0})

_is_login_rate_limited(ts, t) == t < LockoutUntil(PruneFailures(ts, t))

\* ts.append(now)
_record_login_failure(fails, ip, t) == [fails EXCEPT ![ip] = Append(@, t)]

\* a successful login that leaves the failures of its address on record
KeepFailures(fails, ip) == fails

\* _LOGIN_FAILURES.pop(ip, None)
ClearFailures(fails, ip) == [fails EXCEPT ![ip] = <<>>]

\* the response of auth_login; the handler's locals end with it
LoginRespond(rec, status, detail) ==
  [IdleReq EXCEPT !.op = "login", !.pc = "done", !.ip = rec.ip, !.cred = rec.cred,
                  !.status = status, !.detail = detail]

LoginCanStart(r) ==
  /\ started < MaxLogins
  /\ ~Busy(r)
  /\ \A q \in Reqs : q < r => Busy(q)

\* auth_login up to "await _get_user_row_by_email": the lockout check, which
\* also stores the pruned list
auth_login_check(r) ==
  /\ LoginCanStart(r)
  /\ \E ip \in IPs, cred \in Credentials :
       LET rec == [Started(r, "login", UnknownToken, UnknownConv) EXCEPT
                     !.ip = ip, !.cred = cred]
       IN /\ _LOGIN_FAILURES' =
               [_LOGIN_FAILURES EXCEPT ![ip] = PruneFailures(@, now)]
          /\ req' = [req EXCEPT ![r] =
               IF _is_login_rate_limited(_LOGIN_FAILURES[ip], now)
               THEN LoginRespond(rec, 429, "Too many login attempts. Try again in 5 minutes")
               ELSE [rec EXCEPT !.pc = "checked"]]
  /\ started' = started + 1
  /\ UNCHANGED <<db, now, ticks, _RATE_LIMIT_HITS, minted, handled, upload_dir>>

\* auth_login after the user lookup: unknown email, no password hash or wrong
\* password record a failure stamped with the handler's "now"
auth_login_fail(r) ==
  /\ req[r].op = "login" /\ req[r].pc = "checked"
  /\ req[r].cred = "bad" \/ "u1" \notin DOMAIN users
  /\ _LOGIN_FAILURES' = _record_login_failure(_LOGIN_FAILURES, req[r].ip, req[r].now)
  /\ req' = [req EXCEPT ![r] = LoginRespond(@, 401, "Invalid email or password")]
  /\ UNCHANGED <<db, now, ticks, started, _RATE_LIMIT_HITS, minted, handled, upload_dir>>

\* auth_login with the right password: mint, commit, _LOGIN_FAILURES.pop(ip)
auth_login_ok(r) ==
  /\ req[r].op = "login" /\ req[r].pc = "checked"
  /\ req[r].cred = "ok" /\ "u1" \in DOMAIN users
  /\ LET token == _gen_device_token
         t == req[r].now
     IN /\ device_tokens' =
             _mint_device_token_for_user(device_tokens, token, "u1", users["u1"].tier,
                                         t, t + TOKEN_TTL_SECONDS)
        /\ req' = [req EXCEPT ![r] = LoginRespond(@, 200, "")]
  /\ minted' = minted + 1
  /\ _LOGIN_FAILURES' = ClearFailures(_LOGIN_FAILURES, req[r].ip)
  /\ UNCHANGED <<users, conversations, messages, conversation_files, usage_daily,
                 now, ticks, started, _RATE_LIMIT_HITS, handled, upload_dir>>

auth_login(r) == auth_login_check(r) \/ auth_login_fail(r) \/ auth_login_ok(r)

\* ------------------------------------------ the rate-limit middleware
\* requests by method and path; conversation paths carry the conversation id
AccountRequests ==
  {[method |-> "POST", path |-> <<"/v1/auth/login">>],
   [method |-> "GET", path |-> <<"/v1/conversations">>],
   [method |-> "POST", path |-> <<"/v1/user/export">>],
   [method |-> "DELETE", path |-> <<"/v1/user/account">>]}

ChatRequests ==
  {[method |-> "POST", path |-> <<"/v1/chat/completions">>]}
  \cup {[method |-> "POST", path |-> <<"/v1/conversations/", c, "/chat">>] :
          c \in {1, 2}}
  \cup {[method |-> "POST", path |-> <<"/v1/conversations/", c, "/chat/stream">>] :
          c \in {1, 2}}

NoTarget == <<>>

\* <<bucket, endpoint>>, or NoTarget for None
_rate_limit_target(rq) ==
  IF rq.method = "POST" /\ rq.path = <<"/v1/auth/login">> THEN NoTarget
  ELSE IF rq.method \notin {"POST", "PUT", "PATCH", "DELETE"} THEN NoTarget
  ELSE IF rq.method = "POST" /\ rq.path = <<"/v1/chat/completions">>
       THEN <<"chat", "/v1/chat/completions">>
  ELSE IF rq.method = "POST" /\ Len(rq.path) = 3 /\ rq.path[1] = "/v1/conversations/"
          /\ rq.path[3] = "/chat/stream"
       THEN <<"chat", "/v1/conversations/{id}/chat/stream">>
  ELSE IF rq.method = "POST" /\ Len(rq.path) = 3 /\ rq.path[1] = "/v1/conversations/"
          /\ rq.path[3] = "/chat"
       THEN <<"chat", "/v1/conversations/{id}/chat">>
  ELSE IF rq.method = "POST" /\ rq.path = <<"/v1/user/export">>
       THEN <<"export", "/v1/user/export">>
  ELSE IF rq.method = "DELETE" /\ rq.path = <<"/v1/user/account">>
       THEN <<"export", "/v1/user/account">>
  ELSE <<"default", rq.path[1]>>

\* f"{bucket}:{ip}:{endpoint}"
RateKey(target, ip) == <<target[1], ip, target[2]>>

\* _RATE_LIMIT_HITS.get(key) or []
HitsOf(hits, key) == IF key \in DOMAIN hits THEN hits[key] ELSE <<>>

\* a pruning that forgets hits ten seconds before they leave the window
RecentHitsShort(hits, key, window, t) ==
  SelectSeq(HitsOf(hits, key), LAMBDA x : x > t - window + 10)

\* hits = [t for t in hits if t > cutoff]
RecentHits(hits, key, window, t) ==
  SelectSeq(HitsOf(hits, key), LAMBDA x : x > t - window)

SetKey(f, key, v) == [k \in DOMAIN f \cup {key} |-> IF k = key THEN v ELSE f[k]]

\* the response, or the hand-over to the route's handler (call_next)
RateOutcome(rq, ip, status) ==
  [IdleReq EXCEPT !.op = "middleware", !.pc = IF status = 429 THEN "done" ELSE "handler",
                  !.ip = ip, !.rows = rq.path, !.detail = rq.method, !.status = status]

\* _global_rate_limit_middleware with _enforce_rate_limit, for one request
_global_rate_limit_middleware(rq, ip) ==
  LET target == _rate_limit_target(rq) IN
  /\ IF target = NoTarget
     THEN /\ req' = [req EXCEPT ![1] = RateOutcome(rq, ip, 0)]
          /\ UNCHANGED <<_RATE_LIMIT_HITS, handled>>
     ELSE LET key == RateKey(target, ip)
              conf == RATE_LIMITS[target[1]]
              hits == RecentHits(_RATE_LIMIT_HITS, key, conf.window, now)
          IN IF Len(hits) >= conf.requests
             THEN /\ _RATE_LIMIT_HITS' = SetKey(_RATE_LIMIT_HITS, key, hits)
                  /\ req' = [req EXCEPT ![1] = RateOutcome(rq, ip, 429)]
                  /\ UNCHANGED handled
             ELSE /\ _RATE_LIMIT_HITS' = SetKey(_RATE_LIMIT_HITS, key, Append(hits, now))
                  /\ req' = [req EXCEPT ![1] = RateOutcome(rq, ip, 0)]
                  /\ handled' = SetKey(handled, key, Append(HitsOf(handled, key), now))
  /\ started' = started + 1
  /\ UNCHANGED <<db, now, ticks, _LOGIN_FAILURES, minted, upload_dir>>

\* a request to an account route from one of two addresses
account_request ==
  /\ started < MaxArrivals
  /\ \E rq \in AccountRequests, ip \in IPs : _global_rate_limit_middleware(rq, ip)

\* a request to a chat route from address "a"
chat_request ==
  /\ started < MaxChatArrivals
  /\ \E rq \in ChatRequests : _global_rate_limit_middleware(rq, "a")

\* ----------------------------------------------------- /v1/user/profile
user_get_profile(r) ==
  /\ CanStart(r)
  /\ \E token \in TokenInputs :
       LET st == _require_user(token)
           rec == Started(r, "profile", token, UnknownConv)
       IN req' = [req EXCEPT ![r] =
                    Respond(rec, st, IF st = 403 THEN "token disabled"
                                     ELSE IF st = 401 THEN "invalid token" ELSE "")]
  /\ started' = started + 1
  /\ UNCHANGED <<db, now, ticks, mem>>

\* ------------------------------------------- /admin/tokens/{token}/tier
\* body.tier after _normalize_tier_name(default=""): a tier of LIMITS or ""
TierInputs == {"pro", ""}

\* an UPDATE that also puts the row back in service
SetTokenTierReactivates(tokens, token, tier) ==
  [tokens EXCEPT ![token] = [@ EXCEPT !.tier = tier, !.status = "active"]]

\* UPDATE device_tokens SET tier=? WHERE token=?
SetTokenTier(tokens, token, tier) == [tokens EXCEPT ![token].tier = tier]

admin_set_tier(r) ==
  /\ CanStart(r)
  /\ \E token \in TokenInputs, tier \in TierInputs, key_ok \in BOOLEAN :
       LET rec == Started(r, "set_tier", token, UnknownConv)
           st == IF ~key_ok THEN 401
                 ELSE IF tier \notin DOMAIN LIMITS THEN 400
                 ELSE IF _get_token_row(token) = {} THEN 404
                 ELSE 200
       IN /\ req' = [req EXCEPT ![r] = Respond([rec EXCEPT !.tier = tier], st, "")]
          /\ device_tokens' = IF st = 200
                              THEN SetTokenTier(device_tokens, token, tier)
                              ELSE device_tokens
  /\ started' = started + 1
  /\ UNCHANGED <<users, conversations, messages, conversation_files, usage_daily,
                 now, ticks, mem>>

Simple(r) ==
  \/ create_conversation(r)
  \/ list_conversations(r)
  \/ get_conversation(r)
  \/ delete_conversation(r)
  \/ upload_conversation_file(r)
  \/ get_uploaded_file(r)

Refresh(r) == auth_refresh_read(r) \/ auth_refresh_commit(r) \/ auth_refresh_abort(r)

\* ------------------------------------------------------- specifications
\* Store and token lifecycle: every single-segment handler, refresh and the
\* one-shot chat, MaxReq requests in all.
Next ==
  \/ Tick
  \/ \E r \in Reqs : Simple(r)
  \/ \E r \in Reqs : Refresh(r)
  \/ \E r \in Reqs : _handle_chat_completions(r) \/ _call_llm_gate(r) \/ _call_llm_upstream(r)

Spec == Init /\ [][Next]_vars

\* Chat orchestration: the chat handlers, and in the environment slot
\* refreshes and conversation deletes that run between their segments.
NextChat ==
  \/ Tick
  \/ \E r \in Chats : Chat(r)
  \/ \E r \in Chats : Stream(r)
  \/ Refresh(EnvSlot)
  \/ delete_conversation(EnvSlot)

SpecChat == Init /\ [][NextChat]_vars

\* Token lifecycle: the operations that read or write device_tokens and
\* usage_daily (authenticated read, one-shot chat, refresh, tier change).
OneShot(r) == _handle_chat_completions(r) \/ _call_llm_gate(r) \/ _call_llm_upstream(r)

NextToken ==
  \/ Tick
  \/ \E r \in Reqs : list_conversations(r)
  \/ \E r \in Reqs : OneShot(r)
  \/ \E r \in Reqs : Refresh(r)
  \/ \E r \in Reqs : admin_set_tier(r)

SpecToken == Init /\ [][NextToken]_vars

\* Login lockout: login attempts from two client addresses, seconds apart.
NextLogin ==
  \/ Elapse
  \/ \E r \in Reqs : auth_login(r)

SpecLogin == InitLogin /\ [][NextLogin]_vars

\* Refresh window: refreshes of a token at and around the edges of the window.
NextRefresh ==
  \/ Tick
  \/ \E r \in Reqs : Refresh(r)

SpecRefresh == InitRefresh /\ [][NextRefresh]_vars

\* Authentication: every bearer-authenticated operation, for a token that may
\* be disabled before it expires.
NextAuth ==
  \/ Tick
  \/ \E r \in Reqs : Simple(r)
  \/ \E r \in Reqs : Refresh(r)
  \/ \E r \in Reqs : user_get_profile(r)
  \/ \E r \in Chats : Chat(r)
  \/ \E r \in Chats : Stream(r)

SpecAuth == InitRefresh /\ [][NextAuth]_vars

\* Rate limiter: requests to the export bucket's routes and to exempt routes,
\* seconds apart.
NextRate ==
  \/ Elapse
  \/ account_request

SpecRate == Init /\ [][NextRate]_vars

\* Rate limiter, chat bucket: requests to the chat routes within one second.
NextChatRate == chat_request

SpecChatRate == Init /\ [][NextChatRate]_vars

\* ------------------------------------------------------------ properties
\* the step is the first segment of a request handled in slot r
Starts(r) == started' = started + 1 /\ req'[r] # req[r]

\* the step is a segment of the handler in slot r
Moves(r) == req'[r] # req[r]

\* The effects of the refresh step of slot r: all of them, or none.
RefreshAllOrNone(r) ==
  LET T1 == req'[r].token
      T2 == req'[r].new_token
  IN  IF req'[r].pc = "done" /\ req'[r].status = 200
      THEN /\ T2 \notin DOMAIN device_tokens
           /\ DOMAIN conversations' = DOMAIN conversations
           /\ \A c \in DOMAIN conversations :
                 conversations'[c].device_token =
                   (IF conversations[c].device_token = T1 THEN T2
                    ELSE conversations[c].device_token)
           /\ \A k \in DOMAIN usage_daily :
                 k[1] = T1 => /\ <<T2, k[2]>> \in DOMAIN usage_daily'
                              /\ usage_daily'[<<T2, k[2]>>] = usage_daily[k]
           /\ \A k \in DOMAIN usage_daily' : k[1] # T1
           /\ device_tokens'[T1].status = "disabled"
           /\ device_tokens'[T2].status = "active"
           /\ device_tokens'[T2].user_id = device_tokens[T1].user_id
           /\ users'[device_tokens[T1].user_id].last_refresh_at = req'[r].now
      ELSE UNCHANGED db

\* C1: a refresh of T1 that returns T2 leaves every conversation and every
\* usage_daily row that was keyed by T1 keyed by T2, T1 disabled, T2 active and
\* of the same user, and the user's last_refresh_at stamped, all in one step of
\* the store; every other step of a refresh handler leaves the store as it was.
C1_RefreshAtomic ==
  [][\A r \in Reqs : (Moves(r) /\ req'[r].op = "refresh") => RefreshAllOrNone(r)]_vars

C1_Witness ==
  \E r \in Reqs :
    /\ req[r].op = "refresh" /\ req[r].pc = "done" /\ req[r].status = 200
    /\ device_tokens[req[r].token].status = "disabled"
    /\ \E c \in DOMAIN conversations : conversations[c].device_token = req[r].new_token
    /\ \E k \in DOMAIN usage_daily : k[1] = req[r].new_token

\* C2: a request that presents a token whose expires_at is set and not after
\* the current time is answered 401 by every bearer-authenticated operation,
\* refresh included, whether the token is active or disabled.
C2_ExpiredTokenUnauthenticated ==
  [][\A r \in Slots \ {EnvSlot} :
       (/\ Starts(r)
        /\ req'[r].token \in DOMAIN device_tokens
        /\ device_tokens[req'[r].token].expires_at > 0
        /\ now >= device_tokens[req'[r].token].expires_at)
       => (req'[r].pc = "done" /\ req'[r].status = 401)]_vars

\* -------------------------------------------- properties of the SSE stream
IsDelta(f) == "delta" \in DOMAIN f /\ "done" \in DOMAIN f /\ ~f.done
IsSuccess(f) == "message_id" \in DOMAIN f /\ "done" \in DOMAIN f /\ f.done
IsError(f) == "error" \in DOMAIN f
IsFinal(f) == IsError(f) \/ ("done" \in DOMAIN f /\ f.done)

\* the delta fields of the done:false frames, in order
Deltas(frames) ==
  LET ds == SelectSeq(frames, IsDelta) IN [i \in 1..Len(ds) |-> ds[i].delta]

LastFrame(r) == req[r].frames[Len(req[r].frames)]

\* the stream of slot r ended, and with these kinds of last frame
Ended(r) == req[r].op = "stream" /\ req[r].pc = "done" /\ req[r].frames # <<>>
Completed(r) == Ended(r) /\ IsSuccess(LastFrame(r))
Errored(r) == Ended(r) /\ ~IsSuccess(LastFrame(r))

Stored(id) == {i \in 1..Len(messages) : messages[i].id = id}

\* C3: when a stream ends with the done:true success frame, the deltas of its
\* done:false frames, concatenated in order, are the content of that frame, and
\* the assistant message stored for the request has that content.
C3_DeltasEqualContent ==
  \A r \in Chats :
    Completed(r) =>
      /\ Deltas(req[r].frames) = LastFrame(r).content
      /\ \A i \in Stored(LastFrame(r).message_id) :
           messages[i].content = LastFrame(r).content
      /\ req[r].conv \in DOMAIN conversations => Stored(LastFrame(r).message_id) # {}

C3_Witness ==
  \E r \in Chats :
    /\ Completed(r)
    /\ Len(LastFrame(r).content) > 2
    /\ Stored(LastFrame(r).message_id) # {}

\* C4: a stream that ends on an error ends with one event that carries the
\* error string and done:true, and has no other error event.
C4_ErrorEventHasDone ==
  \A r \in Chats :
    Errored(r) =>
      /\ IsError(LastFrame(r))
      /\ "done" \in DOMAIN LastFrame(r) /\ LastFrame(r).done
      /\ Len(SelectSeq(req[r].frames, IsError)) = 1

\* C5: once the stream handler has ended, by its last frame or by the client
\* going away, its producer task is not running.
C5_ProducerStopped ==
  \A r \in Chats :
    (req[r].op = "stream" /\ req[r].pc \in {"done", "cancelled"})
      => req[r].prod \notin {"running", "oneshot"}

C5_Witness ==
  \E r \in Chats :
    /\ req[r].op = "stream" /\ req[r].pc = "cancelled"
    /\ req[r].prod = "cancelled" /\ req[r].items > 0

\* C6: when the upstream request of a conversation chat, streamed or not, has
\* been made, the user message of the request is in the store (unless the
\* conversation was deleted since) and is part of the history that was read.
C6_UserMessageBeforeUpstream ==
  \A r \in Chats :
    (req[r].op \in {"chat", "stream"} /\ req[r].upstream = 1) =>
      /\ \/ \E i \in 1..Len(messages) : messages[i] = UserMessage(r)
         \/ req[r].conv \notin DOMAIN conversations
      /\ \E j \in 1..Len(req[r].rows) :
           req[r].rows[j] = [role |-> "user", content |-> req[r].text]

C6_Witness ==
  \E r \in Chats :
    /\ req[r].op = "stream" /\ req[r].upstream = 1 /\ req[r].pc = "draining"
    /\ \E i \in 1..Len(messages) : messages[i] = UserMessage(r)

\* C7: when the client has the done:true frame with message_id M, the history
\* of the conversation, as long as the conversation exists, has message M.
C7_AssistantStoredBeforeDone ==
  \A r \in Chats :
    (Completed(r) /\ req[r].conv \in DOMAIN conversations) =>
      \E i \in 1..Len(HistoryRows(messages, req[r].conv)) :
        HistoryRows(messages, req[r].conv)[i].id = LastFrame(r).message_id

C7_Witness ==
  \E r \in Chats :
    /\ Completed(r)
    /\ req[r].conv \in DOMAIN conversations
    /\ Len(HistoryRows(messages, req[r].conv)) = 2

\* the positions a stream handler passes through
StreamOrder ==
  [idle |-> {"authed", "done"}, authed |-> {"persisted", "done"},
   persisted |-> {"native", "draining", "done"},
   native |-> {"draining", "done", "cancelled"},
   draining |-> {"draining", "joined", "done", "cancelled"},
   joined |-> {"saved", "done", "cancelled"}, saved |-> {"done", "cancelled"},
   done |-> {}, cancelled |-> {}]

NoFinalIn(frames) == \A i \in 1..Len(frames) : ~IsFinal(frames[i])

\* C8: a stream handler moves forward through accepted, persisted, gated,
\* producing/draining to completed, errored or cancelled; the step that ends it
\* completed or errored emits one final frame, the first of the stream; the step
\* that cancels it emits nothing; and no step follows either.
C8_StreamLifecycle ==
  [][\A r \in Chats :
       (Moves(r) /\ req'[r].op = "stream") =>
         /\ req'[r].pc \in StreamOrder[req[r].pc]
         /\ Len(req'[r].frames) >= Len(req[r].frames)
         /\ SubSeq(req'[r].frames, 1, Len(req[r].frames)) = req[r].frames
         /\ NoFinalIn(req[r].frames)
         /\ IF req'[r].pc = "done" /\ req'[r].status = 200
            THEN /\ Len(req'[r].frames) = Len(req[r].frames) + 1
                 /\ IsFinal(req'[r].frames[Len(req'[r].frames)])
            ELSE /\ NoFinalIn(req'[r].frames)
                 /\ req'[r].pc \in {"done", "cancelled"} => req'[r].frames = req[r].frames]_vars

C8_Witness ==
  \E r \in Chats :
    /\ req[r].op = "stream" /\ req[r].pc = "cancelled"
    /\ Len(req[r].frames) > 1

\* C9: the assistant message of a stream request is stored, and its usage
\* charged, only if the producer reached the end of the upstream reply without
\* a failure and the client was still connected; after an upstream failure or a
\* disconnect no assistant message of the request is stored, nothing is charged
\* for it, and its user message is still in the store.
C9_NothingKeptUnlessCompleted ==
  \A r \in Chats :
    req[r].op = "stream" =>
      /\ (Stored(<<req[r].n, "assistant">>) # {} \/ req[r].charged) =>
           (req[r].prod = "finished" /\ ~req[r].producer_exc /\ req[r].pc # "cancelled")
      /\ (req[r].pc = "cancelled" \/ req[r].producer_exc) =>
           /\ Stored(<<req[r].n, "assistant">>) = {}
           /\ ~req[r].charged
           /\ \/ \E i \in 1..Len(messages) : messages[i] = UserMessage(r)
              \/ req[r].conv \notin DOMAIN conversations

\* tokens counted for the token on the current UTC day
UsedToday(token) ==
  LET k == <<token, now \div DaySeconds>> IN
  IF k \in DOMAIN usage_daily
  THEN usage_daily[k].prompt_tokens + usage_daily[k].completion_tokens
  ELSE 0

QuotaFrame == [error |-> "daily quota exceeded", done |-> TRUE]

\* C10: a chat request (one-shot, conversation chat or stream) that reaches the
\* gate with used + prompt_tokens above the tier's daily_tokens ends there with
\* "daily quota exceeded" (429, or the error event of a stream), without an
\* upstream call and with usage_daily as it was.
C10_QuotaGate ==
  [][\A r \in Chats :
       (/\ Moves(r)
        /\ req[r].op \in {"oneshot", "chat", "stream"} /\ req[r].pc = "persisted"
        /\ UsedToday(req[r].token) + PromptTokens(r) > LIMITS[req[r].tier].daily_tokens)
       => /\ req'[r].pc = "done"
          /\ req'[r].upstream = 0
          /\ usage_daily' = usage_daily
          /\ IF req[r].op = "stream"
             THEN req'[r].frames = <<QuotaFrame>>
             ELSE req'[r].status = 429 /\ req'[r].detail = "daily quota exceeded"]_vars

C10_Witness ==
  \E r \in Chats :
    /\ req[r].op = "stream" /\ req[r].pc = "done"
    /\ req[r].frames = <<QuotaFrame>>
    /\ req[r].upstream = 0
    /\ UsedToday(req[r].token) = 59821

\* ------------------------------------------------ properties of usage_daily
\* the (token, day) row as the upsert sees it: an absent row counts as zeros
UsageRow(usage, k) ==
  IF k \in DOMAIN usage THEN usage[k]
  ELSE [prompt_tokens |-> 0, completion_tokens |-> 0, requests |-> 0]

Charges(r) == ~req[r].charged /\ req'[r].charged

\* C11: the step that follows a successful upstream call adds exactly
\* (+prompt_tokens, +completion_tokens, +1 request) to the row of the request's
\* token and the current UTC day, creates that row when it is absent, and
\* touches no other row; every other step of a chat request (a failed upstream
\* call included) leaves usage_daily as it was.
C11_UsageUpsert ==
  [][\A r \in Chats :
       /\ Charges(r) =>
            LET k == <<req[r].token, now \div DaySeconds>>
                old == UsageRow(usage_daily, k)
            IN /\ req'[r].upstream = 1
               /\ DOMAIN usage_daily' = DOMAIN usage_daily \cup {k}
               /\ \A j \in DOMAIN usage_daily \ {k} : usage_daily'[j] = usage_daily[j]
               /\ usage_daily'[k].prompt_tokens = old.prompt_tokens + req[r].prompt_tokens
               /\ usage_daily'[k].requests = old.requests + 1
               /\ IF req[r].op = "stream"
                  THEN usage_daily'[k].completion_tokens =
                         old.completion_tokens + _approx_tokens(req[r].content)
                  ELSE usage_daily'[k].completion_tokens - old.completion_tokens
                         \in UpstreamCompletionTokens
       /\ (Moves(r) /\ ~Charges(r)) => usage_daily' = usage_daily]_vars

\* a request charged to the row that existed before it (40 requests so far)
C11_Witness ==
  \E r \in Chats :
    /\ req[r].pc = "done" /\ req[r].charged /\ req[r].token = 1
    /\ <<1, now \div DaySeconds>> \in DOMAIN usage_daily
    /\ usage_daily[<<1, now \div DaySeconds>>].requests = 41
    /\ usage_daily[<<1, now \div DaySeconds>>].prompt_tokens = 59000 + req[r].prompt_tokens

NotBelow(new, old) ==
  /\ new.prompt_tokens >= old.prompt_tokens
  /\ new.completion_tokens >= old.completion_tokens
  /\ new.requests >= old.requests

\* C12 as stated: for every (token, day) the three counters, read as
\* _get_daily_usage reads them (an absent row counts as zeros), never decrease
\* in any step.
C12_CountersNeverDecrease ==
  [][\A k \in DOMAIN usage_daily :
       NotBelow(UsageRow(usage_daily', k), usage_daily[k])]_vars

\* C12: the counters of a row never decrease while the row keeps its key, and a
\* row leaves its key only in a refresh, which moves it with its counters
\* unchanged to the key (new token, same day) and disables the old token.
C12_CountersMonotonicUnderRekey ==
  [][\A k \in DOMAIN usage_daily :
       IF k \in DOMAIN usage_daily'
       THEN NotBelow(usage_daily'[k], usage_daily[k])
       ELSE \E t \in DOMAIN device_tokens' \ DOMAIN device_tokens :
              /\ <<t, k[2]>> \in DOMAIN usage_daily'
              /\ usage_daily'[<<t, k[2]>>] = usage_daily[k]
              /\ device_tokens'[k[1]].status = "disabled"]_vars

\* the row of token 1 was moved to the refreshed token and then charged there
C12_Witness ==
  \E k \in DOMAIN usage_daily :
    /\ k[1] \notin {1, 2}
    /\ <<1, k[2]>> \notin DOMAIN usage_daily
    /\ usage_daily[k].requests = 41
    /\ device_tokens[1].status = "disabled"

\* ------------------------------------------- properties of the login lockout
\* groups of five recorded failures that lie within one 60-second window
FailureGroups(ts) ==
  {S \in SUBSET (1..Len(ts)) :
     /\ Cardinality(S) = 5
     /\ \A i, j \in S : ts[i] - ts[j] <= 60}

\* 300 s after the fifth failure of a group (the one recorded last), for the
\* group that ends last; 0 when no five failures lie within 60 s
LockedUntil(ts) ==
  SetMax({ts[SetMax(S)] + 300 : S \in FailureGroups(ts)} \cup {0})

\* the step is the arrival of a login attempt handled in slot r
LoginArrives(r) ==
  /\ started' = started + 1
  /\ req'[r] # req[r]
  /\ req'[r].op = "login"

\* C13: while five failures of an address lie within 60 s and fewer than 300 s
\* have passed since the fifth, a login attempt from that address is answered
\* 429 whatever its credentials, records nothing and leaves the end of the
\* lockout where it was; from 300 s after the fifth failure on, an attempt is
\* evaluated (it goes on to the credential check).
C13_LoginLockout ==
  [][\A r \in Reqs :
       LoginArrives(r) =>
         LET ip == req'[r].ip
             ts == _LOGIN_FAILURES[ip]
         IN IF now < LockedUntil(ts)
            THEN /\ req'[r].pc = "done" /\ req'[r].status = 429
                 /\ Len(_LOGIN_FAILURES'[ip]) <= Len(ts)
                 /\ LockedUntil(_LOGIN_FAILURES'[ip]) = LockedUntil(ts)
            ELSE FailureGroups(ts) # {} => req'[r].pc = "checked"]_vars

\* failures at t-40 .. t lock the address until t + 300: an attempt with the
\* right password at t + 290 has been rejected
C13_Witness ==
  \E r \in Reqs :
    /\ req[r].op = "login" /\ req[r].pc = "done" /\ req[r].status = 429
    /\ req[r].ip = "a" /\ req[r].cred = "ok"
    /\ now = StartTime + 290
    /\ _LOGIN_FAILURES["a"] = [i \in 1..5 |-> StartTime - 50 + 10 * i]
    /\ LockedUntil(_LOGIN_FAILURES["a"]) = StartTime + 300

\* the step is the successful end of a login handled in slot r
LoginSucceeds(r) ==
  /\ req[r].op = "login" /\ req[r].pc = "checked"
  /\ req'[r].pc = "done" /\ req'[r].status = 200

\* C14: a successful login leaves no failure of its address on record, so no
\* failure recorded before it can count towards a later lockout (no lockout is
\* pending after it); the failures of other addresses stay as they are.
C14_SuccessResetsFailures ==
  [][\A r \in Reqs :
       LoginSucceeds(r) =>
         /\ _LOGIN_FAILURES'[req[r].ip] = <<>>
         /\ LockedUntil(_LOGIN_FAILURES'[req[r].ip]) = 0
         /\ \A ip \in IPs \ {req[r].ip} : _LOGIN_FAILURES'[ip] = _LOGIN_FAILURES[ip]]_vars

\* a failed attempt from address "a" was recorded, then a login from "a"
\* succeeded and cleared it, and a second failure after it stands alone
C14_Witness ==
  /\ Cardinality(DOMAIN device_tokens) = 2
  /\ device_tokens[2].expires_at = StartTime + TOKEN_TTL_SECONDS
  /\ \E r \in Reqs : req[r].op = "login" /\ req[r].pc = "done"
                     /\ req[r].status = 401 /\ req[r].ip = "a"
  /\ _LOGIN_FAILURES["a"] = <<StartTime + 10>>
  /\ _LOGIN_FAILURES["b"] = <<>>
  /\ started = 3

\* -------------------------------------------- properties of the rate limiter
\* requests of the key the middleware passed on with a timestamp in (a - window, a]
AdmittedIn(key, window, a) ==
  {i \in 1..Len(HitsOf(handled, key)) :
     handled[key][i] > a - window /\ handled[key][i] <= a}

\* the request whose outcome the step produced
Arrived == [method |-> req'[1].detail, path |-> req'[1].rows]

ChatAdmitted(ip) ==
  UNION {{<<key, i>> : i \in AdmittedIn(key, RATE_LIMITS.chat.window, now)} :
           key \in {k \in DOMAIN handled : k[1] = "chat" /\ k[2] = ip}}

\* C16: from one address, the requests admitted to the chat routes (one-shot,
\* conversation chat, conversation chat stream) within 60 s are at most 60 in
\* all.
C16_ChatBucketAggregates ==
  \A ip \in IPs : Cardinality(ChatAdmitted(ip)) <= RATE_LIMITS.chat.requests

\* ------------------------------------------- properties of the token refresh
\* the step is the arrival of a refresh handled in slot r
RefreshArrives(r) == Starts(r) /\ req'[r].op = "refresh"

\* the old token is active, expires, has not expired and has less than the
\* refresh window left
Refreshable(token, t) ==
  /\ token \in DOMAIN device_tokens
  /\ device_tokens[token].status = "active"
  /\ device_tokens[token].expires_at > 0
  /\ t < device_tokens[token].expires_at
  /\ device_tokens[token].expires_at - t < 7 * 86400

\* C17: a refresh goes on to its write transaction only when the old token, as
\* read on arrival, is active, unexpired and has less than 7 days left; a
\* refresh of any other token (unknown, disabled, expired, never expiring, 7
\* days or more left) is answered with an error and leaves the store unchanged;
\* and only a refresh that passed this check ends with 200.
C17_RefreshOnlyInWindow ==
  [][\A r \in Reqs :
       /\ RefreshArrives(r) =>
            IF Refreshable(req'[r].token, now)
            THEN req'[r].pc = "minting" \/ req'[r].status = 401
            ELSE /\ req'[r].pc = "done" /\ req'[r].status \in {400, 401, 403}
                 /\ <<users, device_tokens, conversations, usage_daily>>' =
                      <<users, device_tokens, conversations, usage_daily>>
       /\ (req[r].op = "refresh" /\ Moves(r) /\ req'[r].status = 200) =>
            req[r].pc = "minting"]_vars

\* a refresh of a disabled token that would otherwise be in the window was
\* refused, and the store holds no third token
C17_Witness ==
  \E r \in Reqs :
    /\ req[r].op = "refresh" /\ req[r].pc = "done" /\ req[r].status = 403
    /\ req[r].token = 1
    /\ device_tokens[1].status = "disabled"
    /\ device_tokens[1].expires_at = StartTime + TOKEN_REFRESH_WINDOW_SECONDS - 1
    /\ DOMAIN device_tokens = {1, 2}
    /\ conversations[1].device_token = 1

\* seconds the old token has left when the refresh arrives
LifetimeLeft(r) == device_tokens[req'[r].token].expires_at - now

ActiveUserToken(r) ==
  /\ req'[r].token \in DOMAIN device_tokens
  /\ device_tokens[req'[r].token].status = "active"
  /\ device_tokens[req'[r].token].user_id \in DOMAIN users
  /\ device_tokens[req'[r].token].expires_at > 0

Rejected(r) == req'[r].pc = "done" /\ req'[r].status \in {400, 401}

\* C18: a refresh at now = expires_at - 7d is allowed, one at
\* expires_at - 7d - 1s is rejected and one at expires_at is rejected.
C18_RefreshBoundary ==
  [][\A r \in Reqs :
       (RefreshArrives(r) /\ ActiveUserToken(r)) =>
         /\ LifetimeLeft(r) = 7 * 86400 => req'[r].pc = "minting"
         /\ LifetimeLeft(r) = 7 * 86400 + 1 => Rejected(r)
         /\ LifetimeLeft(r) = 0 => Rejected(r)]_vars


\* ---------------------------------------------- properties of authentication
\* C19: on every bearer-authenticated operation a request with an unknown token
\* is answered 401 and a request with a known, unexpired, disabled token is
\* answered 403; a request with a disabled token is never served (it ends on
\* arrival with 401 or 403 and the store is left as it was).
C19_UnknownVersusDisabled ==
  [][\A r \in Reqs \cup Chats :
       Starts(r) =>
         LET token == req'[r].token IN
         /\ token \notin DOMAIN device_tokens =>
              req'[r].pc = "done" /\ req'[r].status = 401
         /\ (token \in DOMAIN device_tokens /\ device_tokens[token].status = "disabled") =>
              /\ req'[r].pc = "done"
              /\ req'[r].status \in {401, 403}
              /\ ~TokenExpired(device_tokens[token]) => req'[r].status = 403
              /\ db' = db]_vars

\* a conversation was requested with the disabled token, seven days before it
\* expires, and the request was answered 403
C19_Witness ==
  \E r \in Reqs :
    /\ req[r].op = "create" /\ req[r].pc = "done" /\ req[r].status = 403
    /\ req[r].token = 1
    /\ device_tokens[1].status = "disabled"
    /\ device_tokens[1].expires_at = now + TOKEN_REFRESH_WINDOW_SECONDS
    /\ DOMAIN conversations = {1}


\* ------------------------------------------------------ /v1/user/account
TokensOfUser(user_id) ==
  {t \in DOMAIN device_tokens : device_tokens[t].user_id = user_id}

\* DELETE FROM a table: the rows of f whose key is not in S
Without(f, S) == [k \in DOMAIN f \ S |-> f[k]]

\* DELETE /v1/user/account: _require_user, the confirm flag, then one write
\* transaction that purges the user's rows
user_delete_account(r) ==
  /\ CanStart(r)
  /\ \E token \in TokenInputs, confirm \in BOOLEAN :
       LET st == _require_user(token)
           rec == Started(r, "delete_account", token, UnknownConv)
       IN IF st # 200
          THEN /\ req' = [req EXCEPT ![r] = Respond(rec, st, AuthDetail(st))]
               /\ UNCHANGED db
          ELSE IF ~confirm
          THEN /\ req' = [req EXCEPT ![r] = Respond(rec, 400, "confirm must be true")]
               /\ UNCHANGED db
          ELSE LET user_id == device_tokens[token].user_id
                   toks == TokensOfUser(user_id)
                   convs == {c \in DOMAIN conversations :
                               conversations[c].device_token \in toks}
               IN /\ messages' =
                       SelectSeq(messages, LAMBDA m : m.conversation_id \notin convs)
                  /\ conversations' = Without(conversations, convs)
                  /\ usage_daily' =
                       Without(usage_daily, {k \in DOMAIN usage_daily : k[1] \in toks})
                  /\ device_tokens' = Without(device_tokens, toks)
                  /\ users' = Without(users, {user_id})
                  /\ UNCHANGED conversation_files
                  /\ req' = [req EXCEPT ![r] = Respond(rec, 204, "")]
  /\ started' = started + 1
  /\ UNCHANGED <<now, ticks, mem>>

\* The operations on a token's life: use, refresh, tier change, login, account
\* deletion, and the passing of time, over a store whose first token may already
\* be disabled or expired.
NextLifecycle ==
  \/ Tick
  \/ \E r \in Reqs : list_conversations(r)
  \/ \E r \in Reqs : Refresh(r)
  \/ \E r \in Reqs : admin_set_tier(r)
  \/ \E r \in Reqs : user_delete_account(r)
  \/ \E r \in Reqs : auth_login(r)

SpecLifecycle == InitLifecycle /\ [][NextLifecycle]_vars

\* ------------------------------------------------------------------ C20
\* the tokens issued so far, whether or not their row still exists
Issued == 1..minted

Authenticates(token) == _get_tier_for_token(token) = 200

\* request r arrives in this step and presents the token as its credential
PresentsToken(r, token) ==
  /\ req'[r].n = started + 1
  /\ started' = started + 1
  /\ req'[r].op \in {"list", "profile", "refresh", "delete_account"}
  /\ req'[r].token = token

\* C20: a token that was issued and does not authenticate (its row is disabled,
\* its expires_at has passed, or the row is gone with its user) does not
\* authenticate after any step either, and a request that presents it is
\* answered 401 or 403 at once: no use, refresh, tier change, login or account
\* deletion brings the token back into service.
C20_NoWayBackToActive ==
  [][\A token \in Issued :
       ~Authenticates(token) =>
         /\ ~Authenticates(token)'
         /\ \A r \in Reqs :
              PresentsToken(r, token) =>
                req'[r].pc = "done" /\ req'[r].status \in {401, 403}]_vars

\* token 1 was disabled, an admin then changed its tier, and the request that
\* presented it afterwards was answered 403
C20_Witness ==
  /\ 1 \in DOMAIN device_tokens
  /\ device_tokens[1].status = "disabled"
  /\ device_tokens[1].tier = "pro"
  /\ \E r \in Reqs :
       /\ req[r].op = "list" /\ req[r].pc = "done" /\ req[r].n = 2
       /\ req[r].token = 1 /\ req[r].status = 403


\* ------------------------------------------------------------------ C21
\* A signed-in user with conversations and an upload: conversations are
\* created, files uploaded, the token rotated, and the account deleted.
NextAccount ==
  \/ \E r \in Reqs : create_conversation(r)
  \/ \E r \in Reqs : upload_conversation_file(r)
  \/ \E r \in Reqs : Refresh(r)
  \/ \E r \in Reqs : user_delete_account(r)

SpecAccount == Init /\ [][NextAccount]_vars

\* request r is answered 204 by the account deletion in this step
AccountDeleted(r) ==
  /\ req'[r].n = started + 1
  /\ req'[r].op = "delete_account"
  /\ req'[r].status = 204

ConversationsOf(toks) ==
  {c \in DOMAIN conversations : conversations[c].device_token \in toks}

\* C21: when an account deletion is confirmed for user U, the store it commits
\* holds no device token of U, none of the conversations of U's tokens, no
\* message and no conversation_files row of those conversations, and no
\* usage_daily row of U's tokens.
C21_DeleteCascades ==
  [][\A r \in Reqs :
       AccountDeleted(r) =>
         LET U == device_tokens[req'[r].token].user_id
             toks == TokensOfUser(U)
             convs == ConversationsOf(toks)
         IN /\ U \notin DOMAIN users'
            /\ DOMAIN device_tokens' \cap toks = {}
            /\ DOMAIN conversations' \cap convs = {}
            /\ \A i \in 1..Len(messages') : messages'[i].conversation_id \notin convs
            /\ \A k \in DOMAIN usage_daily' : k[1] \notin toks
            /\ \A f \in DOMAIN conversation_files' :
                 conversation_files'[f].conversation_id \notin convs]_vars


\* ------------------------------------------------------------------ C22
\* Two tokens, a conversation of each and an upload in the first: reads,
\* uploads, file fetches, deletes and chats by either token on either
\* conversation.
NextOwn ==
  \/ \E r \in Reqs : get_conversation(r)
  \/ \E r \in Reqs : delete_conversation(r)
  \/ \E r \in Reqs : upload_conversation_file(r)
  \/ \E r \in Reqs : get_uploaded_file(r)
  \/ \E r \in Chats : Chat(r)
  \/ \E r \in Chats : Stream(r)

SpecOwn == Init /\ [][NextOwn]_vars

\* the conversation request r is aimed at (for a file fetch, the file's)
TargetConversation(rec) ==
  IF rec.op # "file" THEN rec.conv
  ELSE IF rec.file \in DOMAIN conversation_files
       THEN conversation_files[rec.file].conversation_id ELSE UnknownConv

\* request r, authenticated, runs its ownership lookup in this step: a
\* single-segment handler arrives, or a chat leaves its "authed" position
OwnershipLookup(r) ==
  \/ /\ req'[r].n = started + 1
     /\ req'[r].op \in {"read", "delete", "upload", "file"}
     /\ _get_tier_for_token(req'[r].token) = 200
  \/ /\ req[r].op \in {"chat", "stream"}
     /\ req[r].pc = "authed"
     /\ req'[r] # req[r]

\* the target exists and belongs to another token than the request's
ForeignTarget(rec) ==
  LET c == TargetConversation(rec)
  IN  c \in DOMAIN conversations /\ conversations[c].device_token # rec.token

FailsNotFound(rec) ==
  /\ rec.pc = "done"
  /\ IF rec.op = "stream"
     THEN rec.frames = _sse_error_once("conversation not found")
     ELSE rec.status = 404

\* the store failed under the chat handler (sqlite3.Error)
StoreError(rec) ==
  IF rec.op = "stream" THEN rec.frames = <<InternalErrorFrame>> ELSE rec.status = 500

\* C22: a request whose conversation (or whose file's conversation) belongs to
\* another token than the one it authenticated with leaves every table as it
\* was and fails as not-found (with the internal error when the store itself
\* fails); a read, upload, file fetch, delete or chat that gets past its
\* ownership lookup is on a conversation its token owns.
C22_OwnershipIsolation ==
  [][\A r \in Slots :
       OwnershipLookup(r) =>
         /\ ForeignTarget(req'[r]) =>
              /\ db' = db
              /\ FailsNotFound(req'[r]) \/ StoreError(req'[r])
         /\ /\ ~FailsNotFound(req'[r]) /\ ~StoreError(req'[r])
            /\ req'[r].status \in {0, 200}
            =>
              OwnsConversation(req'[r].token, TargetConversation(req'[r]))]_vars

\* token 2 asked to chat in conversation 1 of token 1, to upload to it and to
\* fetch its file: each was answered not-found
C22_Witness ==
  /\ \E r \in Chats :
       /\ req[r].op = "chat" /\ req[r].token = 2 /\ req[r].conv = 1
       /\ req[r].pc = "done" /\ req[r].status = 404
  /\ \E r \in Reqs :
       /\ req[r].op = "file" /\ req[r].token = 2 /\ req[r].file = 1
       /\ req[r].pc = "done" /\ req[r].status = 404
  /\ messages = <<>>
  /\ DOMAIN conversation_files = {1}


\* ------------------------------------------------------------------ C23
\* Chats with attachments over a store that does not fail: uploads, and the
\* two chat handlers with file ids of this conversation, of another one, and
\* unknown.
NextFiles ==
  \/ \E r \in Reqs : upload_conversation_file(r)
  \/ \E r \in Chats : Chat(r)
  \/ \E r \in Chats : StreamSegments(r)

SpecFiles == Init /\ [][NextFiles]_vars

\* the chat handler r resolves its file ids in this step, on a conversation its
\* token owns, and one of them is no file of that conversation
UnresolvedFileIds(r) ==
  /\ req[r].op \in {"chat", "stream"}
  /\ req[r].pc = "authed"
  /\ req'[r] # req[r]
  /\ OwnsConversation(req[r].token, req[r].conv)
  /\ MissingFileIds(req[r].conv, req[r].file_ids) # <<>>

RejectedAsMalformed(rec) ==
  /\ rec.pc = "done"
  /\ IF rec.op = "stream"
     THEN rec.frames = _sse_error_once("unknown file_id(s)")
     ELSE rec.status = 400

\* C23: a chat or streaming chat whose file_ids holds an id that is no
\* conversation_files row of its conversation is rejected as malformed input
\* (400, or the one-frame SSE error naming the ids) and no table changes.
C23_UnknownFileIdsRejected ==
  [][\A r \in Chats :
       UnresolvedFileIds(r) => RejectedAsMalformed(req'[r]) /\ db' = db]_vars


\* ------------------------------------------------------------------ C24
\* Chats that overlap on the same conversations with each other and with one
\* streaming chat, reads of them, and time passing between the segments: a
\* request stamped earlier may insert later.
NextHistory ==
  \/ Tick
  \/ \E r \in Reqs : get_conversation(r)
  \/ \E r \in Reqs : Chat(r)
  \/ \E r \in Chats : StreamSegments(r)

SpecHistory == Init /\ [][NextHistory]_vars

\* the rowid order of two stored messages (message ids are unique)
InsertedBefore(m1, m2) ==
  \E i, j \in 1..Len(messages) : i < j /\ messages[i] = m1 /\ messages[j] = m2

\* H holds each message of conversation c once, ordered by created_at and,
\* among equal created_at, by insertion
IsHistoryOf(H, c) ==
  /\ Len(H) = Cardinality({i \in 1..Len(messages) : messages[i].conversation_id = c})
  /\ \A i \in 1..Len(H) :
       /\ H[i].conversation_id = c
       /\ \E k \in 1..Len(messages) : messages[k] = H[i]
  /\ \A i, j \in 1..Len(H) :
       i < j => \/ H[i].created_at < H[j].created_at
                \/ /\ H[i].created_at = H[j].created_at
                   /\ InsertedBefore(H[i], H[j])

\* request r returns the conversation in this step
ReadsHistory(r) ==
  /\ req'[r].n = started + 1
  /\ req'[r].op = "read"
  /\ req'[r].status = 200

\* the chat handler r commits its user message and loads the history in this step
LoadsHistory(r) ==
  /\ req[r].op \in {"chat", "stream"}
  /\ req[r].pc = "authed"
  /\ req'[r].pc = "persisted"

\* C24: the rows a conversation read returns, and the rows a chat or streaming
\* chat loads after it stored its user message, are the messages of the
\* conversation ordered by created_at, messages of equal created_at in the order
\* of their insertion; also when chats overlap on the conversation and the one
\* stamped earlier inserts later.
C24_HistoryOrder ==
  /\ [][\A r \in Slots :
          ReadsHistory(r) => IsHistoryOf(req'[r].rows, req'[r].conv)]_vars
  /\ [][\A r \in Slots :
          LoadsHistory(r) =>
            /\ IsHistoryOf(HistoryRows(messages, req[r].conv), req[r].conv)'
            /\ req'[r].rows =
                 _build_oai_messages_from_rows(HistoryRows(messages, req[r].conv))']_vars

\* a chat stamped before another one stored its user message after it, and
\* loaded a history that lists its own message first
C24_Witness ==
  \E r \in Reqs :
    /\ req[r].op = "chat" /\ req[r].pc = "persisted"
    /\ Len(req[r].rows) = 2
    /\ req[r].rows[1].content = req[r].text
    /\ Len(messages) = 2
    /\ messages[2].id = <<req[r].n, "user">>
    /\ messages[1].created_at > messages[2].created_at
    /\ messages[1].conversation_id = messages[2].conversation_id


\* ------------------------------------------- context window and estimator
\* _call_llm and stream_gen as functions of the message list and the tier:
\* the list is truncated to the tier's context window and its tokens estimated.
TextOfLen(n) == [i \in 1..n |-> "x"]

\* Messages sized against the context window L of a tier: a short system
\* message and one that alone is a token over L; user messages that are empty
\* and a token over half of L; an assistant message over half of L; and
\* a user message whose content is a list with a text part, an empty text part
\* and an image part.
MessagePool(tier) ==
  LET L == LIMITS[tier].max_context_tokens
  IN  { [role |-> "system", content |-> TextOfLen(5)],
        [role |-> "system", content |-> TextOfLen(4 * L + 1)],
        [role |-> "user", content |-> <<>>],
        [role |-> "user", content |-> TextOfLen(2 * L + 1)],
        [role |-> "assistant", content |-> TextOfLen(2 * L + 1)],
        [role |-> "user",
         parts |-> <<[type |-> "text", text |-> TextOfLen(5)],
                     [type |-> "text", text |-> <<>>],
                     [type |-> "image_url"]>>] }

MessageLists(tier) ==
  UNION {[1..n -> MessagePool(tier)] : n \in 0..MaxMsgs}

InitContext ==
  /\ now = StartTime
  /\ users = ("u1" :> [tier |-> "free", last_refresh_at |-> 0])
  /\ device_tokens =
       (1 :> [tier |-> "free", status |-> "active", user_id |-> "u1",
              expires_at |-> StartTime + DaySeconds, note |-> ""])
  /\ conversations = <<>>
  /\ messages = <<>>
  /\ conversation_files = <<>>
  /\ usage_daily = <<>>
  /\ ticks = 0
  /\ started = 0
  /\ \E tier \in DOMAIN LIMITS : \E msgs \in MessageLists(tier) :
       req = [r \in Slots |->
                IF r = 1
                THEN [IdleReq EXCEPT !.op = "context", !.pc = "messages",
                                     !.tier = tier, !.rows = msgs]
                ELSE IdleReq]
  /\ _LOGIN_FAILURES = [ip \in IPs |-> <<>>]
  /\ _RATE_LIMIT_HITS = <<>>
  /\ handled = <<>>
  /\ minted = Cardinality(DOMAIN device_tokens)
  /\ upload_dir = {conversation_files[f].stored_path : f \in DOMAIN conversation_files}

\* messages = _truncate_messages_to_fit(messages, limits.max_context_tokens);
\* prompt_tokens = _messages_approx_tokens(messages)
truncate_and_estimate ==
  /\ req[1].op = "context" /\ req[1].pc = "messages"
  /\ LET outbound == _truncate_messages_to_fit(req[1].rows,
                                               LIMITS[req[1].tier].max_context_tokens)
     IN req' = [req EXCEPT ![1] =
                  [@ EXCEPT !.pc = "estimated", !.outbound = outbound,
                            !.prompt_tokens = _messages_approx_tokens(outbound)]]
  /\ UNCHANGED <<db, now, ticks, started, mem>>

SpecContext == InitContext /\ [][truncate_and_estimate]_vars

Truncated == req[1].op = "context" /\ req[1].pc = "estimated"

\* ------------------------------------------------------------------ C25
\* C25: the message list sent upstream after truncation is estimated at no
\* more than the context window of the tier, whatever the input list.
C25_TruncatedFitsWindow ==
  Truncated =>
    _messages_approx_tokens(req[1].outbound) <= LIMITS[req[1].tier].max_context_tokens


NonSystem(msgs) == SelectSeq(msgs, LAMBDA m : m.role # "system")

\* C25 with the case the loop ends in: the list sent upstream fits the context
\* window of the tier, or it holds no non-system message any more (its system
\* messages alone are over the window).
C25_TruncatedFitsOrOnlySystem ==
  Truncated =>
    \/ _messages_approx_tokens(req[1].outbound)
         <= LIMITS[req[1].tier].max_context_tokens
    \/ NonSystem(req[1].outbound) = <<>>

\* an input over the window was cut down to a list that fits and still holds a
\* non-system message
C25_Witness ==
  /\ Truncated
  /\ _messages_approx_tokens(req[1].rows) > LIMITS[req[1].tier].max_context_tokens
  /\ _messages_approx_tokens(req[1].outbound) <= LIMITS[req[1].tier].max_context_tokens
  /\ NonSystem(req[1].outbound) # <<>>
  /\ Len(req[1].outbound) < Len(req[1].rows)


\* ------------------------------------------------------------------ C26
System(msgs) == SelectSeq(msgs, LAMBDA m : m.role = "system")

\* the last n entries of a sequence
Suffix(s, n) == SubSeq(s, Len(s) - n + 1, Len(s))

KeptCount == Len(NonSystem(req[1].outbound))

\* C26: truncation keeps every system message and drops non-system messages
\* from the oldest end only: the list sent upstream is the system messages of
\* the input followed by a suffix of its non-system messages, both in their
\* original order, and the suffix one message longer would be over the
\* context window of the tier (nothing is dropped that did not have to be).
C26_KeepsSystemDropsOldest ==
  Truncated =>
    LET rows == req[1].rows
        max_context_tokens == LIMITS[req[1].tier].max_context_tokens
    IN /\ System(req[1].outbound) = System(rows)
       /\ KeptCount <= Len(NonSystem(rows))
       /\ req[1].outbound = System(rows) \o Suffix(NonSystem(rows), KeptCount)
       /\ KeptCount < Len(NonSystem(rows)) =>
            _messages_approx_tokens(
                System(rows) \o Suffix(NonSystem(rows), KeptCount + 1))
              > max_context_tokens

\* a list with a system message and three non-system messages of which the
\* oldest were dropped and the newest, different from the oldest, was kept
C26_Witness ==
  /\ Truncated
  /\ System(req[1].rows) # <<>>
  /\ KeptCount >= 1
  /\ KeptCount < Len(NonSystem(req[1].rows))
  /\ Head(NonSystem(req[1].rows)) # Head(NonSystem(req[1].outbound))


\* ------------------------------------------------------------------ C27
\* Provider forcing: a token of each tier, the four chat-completion routes
\* (unforced, /deepseek, /kimi, /claude) and tier changes by the administrator.
InitProvider ==
  /\ now = StartTime
  /\ users = ("u1" :> [tier |-> "free", last_refresh_at |-> 0])
  /\ device_tokens =
       (1 :> [tier |-> "free", status |-> "active", user_id |-> "u1",
              expires_at |-> StartTime + DaySeconds, note |-> ""])
       @@ (2 :> [tier |-> "pro", status |-> "active", user_id |-> NoUser,
                 expires_at |-> 0, note |-> ""])
       @@ (3 :> [tier |-> "max", status |-> "active", user_id |-> NoUser,
                 expires_at |-> 0, note |-> ""])
  /\ conversations = <<>>
  /\ messages = <<>>
  /\ conversation_files = <<>>
  /\ usage_daily = <<>>
  /\ ticks = 0
  /\ started = 0
  /\ req = [r \in Slots |-> IdleReq]
  /\ _LOGIN_FAILURES = [ip \in IPs |-> <<>>]
  /\ _RATE_LIMIT_HITS = <<>>
  /\ handled = <<>>
  /\ minted = Cardinality(DOMAIN device_tokens)
  /\ upload_dir = {conversation_files[f].stored_path : f \in DOMAIN conversation_files}

NextProvider ==
  \/ \E r \in Reqs : OneShot(r)
  \/ \E r \in Reqs : admin_set_tier(r)

SpecProvider == InitProvider /\ [][NextProvider]_vars

\* the tier a provider belongs to, and the provider a tier gets by default
ProviderTier == [deepseek |-> "free", kimi |-> "pro", claude |-> "max"]
DefaultProvider == [free |-> "kimi", pro |-> "kimi", max |-> "claude"]

\* this step starts a one-shot chat in slot r with a token that authenticates
StartsOneShot(r) ==
  /\ started' = started + 1
  /\ req'[r].n = started' /\ req'[r].op = "oneshot"
  /\ _get_tier_for_token(req'[r].token) = 200

ForcedAboveTier(forced, tier) ==
  forced # "" /\ TIER_LEVEL[ProviderTier[forced]] > TIER_LEVEL[tier]

\* every upstream call went to the forced provider, which was within the tier
\* the handler read, or without forcing to the default provider of that tier;
\* a request refused for its forcing made no upstream call and was not charged
UpstreamCallsAllowed ==
  \A r \in Reqs :
    /\ (req[r].op = "oneshot" /\ req[r].upstream = 1) =>
         /\ ~ForcedAboveTier(req[r].forced, req[r].tier)
         /\ req[r].provider = IF req[r].forced # "" THEN req[r].forced
                              ELSE DefaultProvider[req[r].tier]
    /\ (req[r].op = "oneshot" /\ req[r].status = 403 /\ req[r].detail = "tier not allowed") =>
         req[r].upstream = 0 /\ ~req[r].charged /\ req[r].pc = "done"

\* C27: forcing a provider is permitted exactly when the provider's tier level
\* is at most the level of the token's tier; a request forcing a provider above
\* it is answered 403 at once, with no upstream call and no usage charge;
\* without forcing, free and pro tokens are served by kimi and max tokens by
\* claude.
C27_ForcingWithinTier ==
  [][ /\ \A r \in Reqs :
           StartsOneShot(r) =>
             IF ForcedAboveTier(req'[r].forced, device_tokens[req'[r].token].tier)
             THEN /\ req'[r].pc = "done" /\ req'[r].status = 403
                  /\ req'[r].upstream = 0 /\ ~req'[r].charged
                  /\ usage_daily' = usage_daily
             ELSE /\ req'[r].status # 403
                  /\ req'[r].pc = "persisted"
                  /\ req'[r].tier = device_tokens[req'[r].token].tier
      /\ UpstreamCallsAllowed' ]_vars

\* one request forcing a provider above its token's tier was refused, and one
\* forcing a provider below its token's tier was served by that provider and
\* charged
C27_Witness ==
  \E r, q \in Reqs :
    /\ req[r].op = "oneshot" /\ req[r].forced = "claude"
    /\ req[r].status = 403 /\ req[r].detail = "tier not allowed"
    /\ req[q].op = "oneshot" /\ req[q].forced = "deepseek" /\ req[q].tier = "pro"
    /\ req[q].upstream = 1 /\ req[q].provider = "deepseek" /\ req[q].charged


\* ------------------------------------------------------------------ C28
\* max(1, ceil(len(text)/4))
CeilQuarterAtLeastOne(text) == Max2(1, (Len(text) + 3) \div 4)

\* the estimate of one message: of its string content, or of the text parts of
\* its list content
MessageEstimate(m) ==
  IF "content" \in DOMAIN m THEN CeilQuarterAtLeastOne(m.content)
  ELSE SumSeq([j \in 1..Len(m.parts) |->
                 IF m.parts[j].type = "text"
                 THEN CeilQuarterAtLeastOne(m.parts[j].text) ELSE 0])

\* C28: the estimator gives max(1, ceil(len(text)/4)) for every string, the
\* empty string included, and for list content the sum over the text parts
\* only: the prompt estimate of a request is the sum of these over the
\* messages sent upstream.
C28_EstimatorFormula ==
  Truncated =>
    req[1].prompt_tokens =
      SumSeq([i \in 1..Len(req[1].outbound) |-> MessageEstimate(req[1].outbound[i])])


\* ------------------------------------------------------------------ C29
\* Stored message content. A string is a sequence of items; an item is one
\* ordinary character or one whole marker ("[[MESSAGE_META]]" and
\* "[[/MESSAGE_META]]" share no overlap with each other or with themselves).
_MESSAGE_META_PREFIX == "[[MESSAGE_META]]"
_MESSAGE_META_SUFFIX == "[[/MESSAGE_META]]"

TextItems == {"a", _MESSAGE_META_PREFIX, _MESSAGE_META_SUFFIX}
UserTexts == UNION {[1..n -> TextItems] : n \in 0..MaxTextLen}
\* original_name of an upload (the filename of the multipart part)
FileNames == {<<"a">>, <<_MESSAGE_META_PREFIX>>, <<_MESSAGE_META_SUFFIX>>}
FileIdStrings == {"f1", "f2"}
FileIdLists == UNION {[1..n -> FileIdStrings] : n \in 0..MaxFileIds}

\* the first occurrence of each id, in order
RECURSIVE _normalize_file_ids(_)
_normalize_file_ids(value) ==
  IF value = <<>> THEN <<>>
  ELSE LET out == _normalize_file_ids(SubSeq(value, 1, Len(value) - 1))
           fid == value[Len(value)]
       IN IF \E i \in 1..Len(out) : out[i] = fid THEN out ELSE Append(out, fid)

RECURSIVE Flatten(_)
Flatten(ss) == IF ss = <<>> THEN <<>> ELSE Head(ss) \o Flatten(Tail(ss))

\* json.dumps(meta, ensure_ascii=False): the ids, then a card per file with its
\* id and its name between quotes; "[", "]" and "/" are not escaped, so a
\* marker in a name is a marker in the JSON text
json_dumps(meta) ==
  <<"{">> \o Flatten([i \in 1..Len(meta.file_ids) |-> <<"\"", meta.file_ids[i], "\"">>])
          \o <<",">>
          \o Flatten([i \in 1..Len(meta.files) |->
                        <<"{", "\"", meta.files[i].id, "\"", "\"">>
                          \o meta.files[i].name \o <<"\"", "}">>])
          \o <<"}">>

\* {} : meta.get("file_ids") and meta.get("files") are None
EmptyMeta == [file_ids |-> <<>>, files |-> <<>>]

FileCards == [id : FileIdStrings, name : FileNames]
Metas ==
  [file_ids : FileIdLists, files : UNION {[1..n -> FileCards] : n \in 0..MaxFileIds}]

\* _safe_json_loads_object: the object a JSON text stands for, {} for a text
\* that is none (the proper prefix of a JSON object text never is one, and no
\* sequence of TextItems is)
_safe_json_loads_object(s) ==
  IF \E m \in Metas : json_dumps(m) = s
  THEN CHOOSE m \in Metas : json_dumps(m) = s
  ELSE EmptyMeta

\* str.find(sub, start) + 1 for a one-item sub: the first position >= start
\* that holds the item, 0 if there is none
Find(s, item, start) ==
  LET hits == {i \in start..Len(s) : s[i] = item}
  IN IF hits = {} THEN 0 ELSE CHOOSE i \in hits : \A j \in hits : i <= j

_parse_message_content_with_meta(raw_content) ==
  LET start == 2
      end == Find(raw_content, _MESSAGE_META_SUFFIX, start)
  IN IF /\ raw_content # <<>>
        /\ raw_content[1] = _MESSAGE_META_PREFIX
        /\ end > start
     THEN [body |-> SubSeq(raw_content, end + 1, Len(raw_content)),
           meta |-> _safe_json_loads_object(SubSeq(raw_content, start, end - 1))]
     ELSE [body |-> raw_content, meta |-> EmptyMeta]

_encode_message_content_with_meta(text, file_ids, files) ==
  LET clean_ids == _normalize_file_ids(file_ids)
      file_cards == [i \in 1..Len(files) |->
                       [id |-> files[i].id, name |-> files[i].original_name]]
      meta == [file_ids |-> clean_ids, files |-> file_cards]
  IN IF clean_ids = <<>> THEN text
     ELSE <<_MESSAGE_META_PREFIX>> \o json_dumps(meta) \o <<_MESSAGE_META_SUFFIX>> \o text

\* A chat request with its message text and file ids, already normalised by
\* the handler, and the rows of its files as
\* _fetch_conversation_files_by_ids returns them (one per id, in order).
InitSentinel ==
  /\ now = StartTime
  /\ users = ("u1" :> [tier |-> "free", last_refresh_at |-> 0])
  /\ device_tokens =
       (1 :> [tier |-> "free", status |-> "active", user_id |-> "u1",
              expires_at |-> StartTime + DaySeconds, note |-> ""])
  /\ conversations = <<>>
  /\ messages = <<>>
  /\ conversation_files = <<>>
  /\ usage_daily = <<>>
  /\ ticks = 0
  /\ started = 0
  /\ \E text \in UserTexts, ids \in FileIdLists, names \in [FileIdStrings -> FileNames] :
       LET file_ids == _normalize_file_ids(ids) IN
       req = [r \in Slots |->
                IF r = 1
                THEN [IdleReq EXCEPT
                        !.op = "sentinel", !.pc = "fetched",
                        !.text = text, !.file_ids = file_ids,
                        !.rows = [i \in 1..Len(file_ids) |->
                                    [id |-> file_ids[i],
                                     original_name |-> names[file_ids[i]]]]]
                ELSE IdleReq]
  /\ _LOGIN_FAILURES = [ip \in IPs |-> <<>>]
  /\ _RATE_LIMIT_HITS = <<>>
  /\ handled = <<>>
  /\ minted = Cardinality(DOMAIN device_tokens)
  /\ upload_dir = {conversation_files[f].stored_path : f \in DOMAIN conversation_files}

\* stored_user_content = _encode_message_content_with_meta(user_text, ...)
store_user_content ==
  /\ req[1].op = "sentinel" /\ req[1].pc = "fetched"
  /\ req' = [req EXCEPT ![1] =
               [@ EXCEPT !.pc = "stored",
                         !.content = _encode_message_content_with_meta(
                                       req[1].text, req[1].file_ids, req[1].rows)]]
  /\ UNCHANGED <<db, now, ticks, started, mem>>

\* a reader of the row: text, meta = _parse_message_content_with_meta(content);
\* file_ids = _normalize_file_ids(meta.get("file_ids"))
read_stored_content ==
  /\ req[1].op = "sentinel" /\ req[1].pc = "stored"
  /\ LET parsed == _parse_message_content_with_meta(req[1].content)
     IN req' = [req EXCEPT ![1] =
                  [@ EXCEPT !.pc = "parsed", !.body = parsed.body,
                            !.meta = [parsed.meta EXCEPT
                                        !.file_ids = _normalize_file_ids(@)]]]
  /\ UNCHANGED <<db, now, ticks, started, mem>>

NextSentinel == store_user_content \/ read_stored_content

SpecSentinel == InitSentinel /\ [][NextSentinel]_vars

NextUpload == \E r \in Reqs : _handle_file_upload_request(r, Uploads)

SpecUpload == Init /\ [][NextUpload]_vars

SameBytesAndMime(f, g) ==
  /\ conversation_files[f].conversation_id = conversation_files[g].conversation_id
  /\ conversation_files[f].sha256_hash = conversation_files[g].sha256_hash
  /\ conversation_files[f].mime_type = conversation_files[g].mime_type

\* C30: two uploads into one conversation with the same bytes and the same
\* detected MIME type have the same stored path, whatever their file names:
\* the path follows from the SHA-256 of the bytes, and a re-upload adds a row
\* but no second stored file.
C30_StoredPathBySha ==
  \A f, g \in DOMAIN conversation_files :
    SameBytesAndMime(f, g) =>
      /\ conversation_files[f].stored_path = conversation_files[g].stored_path
      /\ conversation_files[f].stored_path \in upload_dir


\* ------------------------------------------------------------------ C31
\* Uploads under file names with directories in them: a relative path that
\* climbs out of the uploads root, an absolute path, a name that ends with
\* "/", "..", no name; with suffixes that match the extension pattern and one
\* that does not.
TraversalUploads ==
  { Upload(Utf8Text(1), ClientFileName(<<"..", "..", "etc">>, "passwd", ".txt")),
    Upload(Utf8Text(1), ClientFileName(<<"", "etc">>, "passwd", "")),
    Upload(Utf8Text(1), ClientFileName(<<"tmp">>, "", "")),
    Upload(Utf8Text(1), FileName("passwd", ".txt")),
    Upload(Utf8Text(2), FileName("..", "")),
    Upload(Utf8Text(2), NoFileName),
    Upload(Png(1), ClientFileName(<<"..">>, "photo", ".tar-gz")),
    Upload(Png(1), ClientFileName(<<"..">>, "photo", ".PNG")) }

NextTraversal == \E r \in Reqs : _handle_file_upload_request(r, TraversalUploads)

SpecTraversal == Init /\ [][NextTraversal]_vars

\* C31: every row of conversation_files has a stored path made of the SHA-256
\* of its content and an extension that is empty or a dot with letters and
\* digits (a single file name directly in the uploads root), that file exists,
\* and its original_name has no directory in it, whatever name the client sent.
C31_StoredInsideUploads ==
  \A f \in DOMAIN conversation_files :
    LET row == conversation_files[f] IN
    /\ row.stored_path.sha256_hash = row.sha256_hash
    /\ row.stored_path.extension \notin (SuffixesNotMatching \ {""})
    /\ row.stored_path \in upload_dir
    /\ row.original_name.dirs = <<>>

\* an upload sent under a name that climbs out of the uploads root was
\* accepted and its row is in the table
C31_Witness ==
  \E r \in Reqs :
    /\ req[r].op = "upload" /\ req[r].status = 200
    /\ req[r].upload.original_name.dirs = <<"..", "..", "etc">>
    /\ \E f \in DOMAIN conversation_files :
         /\ conversation_files[f].original_name = FileName("passwd", ".txt")
         /\ conversation_files[f].stored_path.extension = ".txt"


\* ------------------------------------------------------------------ C32
\* Uploads at and around the caps: a picture and a text of exactly the cap of
\* their class and of one byte more, a picture between the two caps, and a
\* text too long for the request body.
SizedUploads ==
  { Upload(OfSize(Png(1), MAX_IMAGE_SIZE), FileName("photo", ".png")),
    Upload(OfSize(Png(1), MAX_IMAGE_SIZE + 1), FileName("photo", ".png")),
    Upload(OfSize(Png(1), MAX_FILE_SIZE), FileName("photo", ".png")),
    Upload(OfSize(Utf8Text(1), MAX_FILE_SIZE), FileName("big", ".txt")),
    Upload(OfSize(Utf8Text(1), MAX_FILE_SIZE + 1), FileName("big", ".txt")),
    Upload(OfSize(Utf8Text(1), MAX_FILE_SIZE + 2 * 1024 * 1024), FileName("big", ".txt")),
    Upload(Utf8Text(1), FileName("small", ".txt")) }

NextSized == \E r \in Reqs : _handle_file_upload_request(r, SizedUploads)

SpecSized == Init /\ [][NextSized]_vars

\* 10 MiB for the image types, 20 MiB for the file types
CapOfClass(mime_type) ==
  IF mime_type \in {"image/jpeg", "image/png", "image/gif", "image/webp"}
  THEN 10 * 1024 * 1024 ELSE 20 * 1024 * 1024

\* the request in slot r is answered by this step
AnswersUpload(r) ==
  /\ started' = started + 1
  /\ req'[r].n = started' /\ req'[r].op = "upload" /\ req'[r].pc = "done"

Declared(upload, content_type) ==
  [file_bytes |-> upload.file_bytes, original_name |-> upload.original_name,
   content_type |-> content_type]

\* Uploads whose name and declared type agree or disagree with their bytes.
SpoofedUploads ==
  { Declared(Upload(OpaqueBinary(1), FileName("avatar", ".png")), "image/png"),
    Declared(Upload(OpaqueBinary(1), FileName("avatar", ".jpg")), "image/jpeg"),
    Declared(Upload(OpaqueBinary(1), FileName("payload", ".exe")), "application/octet-stream"),
    Declared(Upload(OpaqueBinary(1), FileName("notes", ".txt")), "text/plain"),
    Declared(Upload(Utf8Text(1), FileName("avatar", ".png")), "image/png"),
    Declared(Upload(Png(1), FileName("notes", ".txt")), "text/plain"),
    Declared(Upload(Png(1), FileName("avatar", ".png")), "image/png"),
    Declared(Upload(Jpeg(1), FileName("avatar", ".png")), "image/png"),
    Declared(Upload(Gif(1), FileName("anim", "")), "application/octet-stream"),
    Declared(Upload(Webp(1), FileName("pic", ".webp")), "image/webp") }

NextSpoofed == \E r \in Reqs : _handle_file_upload_request(r, SpoofedUploads)

SpecSpoofed == Init /\ [][NextSpoofed]_vars

\* the image type whose magic bytes the payload starts with, "" if none
MagicImageType(file_bytes) ==
  CASE file_bytes.kind = "jpeg" -> "image/jpeg"
    [] file_bytes.kind = "png" -> "image/png"
    [] file_bytes.kind = "gif" -> "image/gif"
    [] file_bytes.kind = "webp" -> "image/webp"
    [] OTHER -> ""

ImageTypes == {"image/jpeg", "image/png", "image/gif", "image/webp"}
FileTypes == {"application/pdf", "text/plain", "text/csv", "application/json", "text/markdown"}

\* C33: an authenticated upload is answered 415, and adds no row and no
\* stored file, when the type detected for it is none of the allowed image
\* and file types; an upload that is stored has an image type exactly when
\* its bytes start with the magic bytes of that image type, whatever its file
\* name and its declared Content-Type say.
C33_ImagesByMagicOnly ==
  [][\A r \in Reqs :
       AnswersUpload(r) /\ req'[r].status \notin {401, 403} =>
         LET part == req'[r].upload
             mime_type == _detect_mime_type(part.file_bytes, part.original_name)
         IN /\ mime_type \in ImageTypes => mime_type = MagicImageType(part.file_bytes)
            /\ IF mime_type \notin ImageTypes \cup FileTypes
               THEN /\ req'[r].status = 415
                    /\ conversation_files' = conversation_files
                    /\ upload_dir' = upload_dir
               ELSE /\ req'[r].status # 415
                    /\ \A f \in DOMAIN conversation_files' \ DOMAIN conversation_files :
                         /\ conversation_files'[f].mime_type = mime_type
                         /\ (mime_type \in ImageTypes) <=>
                              (MagicImageType(part.file_bytes) # "")]_vars

\* bytes without magic number sent as avatar.png with Content-Type image/png
\* were refused, after a picture sent as notes.txt was stored as a picture
C33_Witness ==
  \E r \in Reqs :
    /\ req[r].op = "upload" /\ req[r].status = 415
    /\ req[r].upload.file_bytes.kind = "binary"
    /\ req[r].upload.original_name.suffix = ".png"
    /\ req[r].upload.content_type = "image/png"
    /\ \E f \in DOMAIN conversation_files :
         /\ conversation_files[f].original_name = FileName("notes", ".txt")
         /\ conversation_files[f].mime_type = "image/png"


\* ------------------------------------------------------------------ C34
\* Conversation titles: conversation 1 is untitled and holds two uploads, a
\* PDF named scan.pdf and one sent with the file name "tmp/", whose base name
\* is empty; conversation 2 already has a title. Chats and one streaming chat
\* send messages with leading, trailing and repeated whitespace, a message of
\* more than 50 characters, and attachment-only turns.
EmptyNameUpload ==
  _extract_file_field_from_multipart(Upload(Pdf(2), ClientFileName(<<"tmp">>, "", "")))

OldTitle == <<"o", "l", "d">>

LongText == [i \in 1..(TitleLen + 1) |-> "x"]

TitleChatInputs ==
  { <<<<"h", "i">>, <<>>>>,
    <<<<" ", "a", " ", "\t", "b", "\n">>, <<>>>>,
    <<LongText, <<>>>>,
    <<<<" ">>, <<>>>>,
    <<<<>>, <<1>>>>,
    <<<<"\n">>, <<2, 1>>>>,
    <<<<>>, <<2>>>> }

InitTitle ==
  /\ now = StartTime
  /\ users = <<>>
  /\ device_tokens =
       (1 :> [tier |-> "free", status |-> "active", user_id |-> NoUser,
              expires_at |-> 0, note |-> ""])
       @@ (2 :> [tier |-> "max", status |-> "active", user_id |-> NoUser,
                 expires_at |-> 0, note |-> ""])
  /\ conversations =
       (1 :> [device_token |-> 1, title |-> NoTitle,
              created_at |-> StartTime - 60, updated_at |-> StartTime - 60])
       @@ (2 :> [device_token |-> 2, title |-> OldTitle,
                 created_at |-> StartTime - 60, updated_at |-> StartTime - 60])
  /\ messages = <<>>
  /\ conversation_files = (1 :> FileRow(1, DefaultUpload))
                            @@ (2 :> FileRow(1, EmptyNameUpload))
  /\ usage_daily = <<>>
  /\ ticks = 0
  /\ started = 0
  /\ req = [r \in Slots |-> IdleReq]
  /\ _LOGIN_FAILURES = [ip \in IPs |-> <<>>]
  /\ _RATE_LIMIT_HITS = <<>>
  /\ handled = <<>>
  /\ minted = Cardinality(DOMAIN device_tokens)
  /\ upload_dir = {conversation_files[f].stored_path : f \in DOMAIN conversation_files}

NextTitle ==
  \/ \E r \in Reqs :
       \/ conversation_chat_request(r, TitleChatInputs)
       \/ conversation_chat_persist(r)
       \/ _call_llm_gate(r)
       \/ _call_llm_upstream(r)
       \/ conversation_chat_save(r)
  \/ \E r \in Chats :
       \/ conversation_chat_stream_request(r, TitleChatInputs)
       \/ StreamSegments(r)

SpecTitle == InitTitle /\ [][NextTitle]_vars


\* a chat request commits its user turn in this step
PersistsUserTurn ==
  /\ Len(messages') = Len(messages) + 1
  /\ messages'[Len(messages')].role = "user"

\* the text the title of a turn is taken from: the message, or the name of the
\* first attachment when the message is empty
SeedOfTurn(m) ==
  IF m.content # <<>> THEN m.content
  ELSE IF m.file_ids # <<>> THEN NameText(conversation_files[m.file_ids[1]].original_name)
  ELSE <<>>

WordChars(text) == SelectSeq(text, LAMBDA ch : ~IsSpace(ch))

\* title is seed with its whitespace collapsed, cut at 50 characters
CollapsedPrefix(title, seed) ==
  /\ Len(title) \in 1..TitleLen
  /\ title[1] # " "
  /\ \A i \in 1..Len(title) : title[i] \notin {"\t", "\n"}
  /\ \A i \in 1..(Len(title) - 1) : ~(title[i] = " " /\ title[i + 1] = " ")
  /\ WordChars(title) = SubSeq(WordChars(seed), 1, Len(WordChars(title)))
  /\ Len(title) = TitleLen \/ (WordChars(title) = WordChars(seed) /\ title[Len(title)] # " ")

\* C34: a conversation's title is written only while it is null: the first
\* persisted user turn sets it to the whitespace-collapsed seed of at most 50
\* characters (the message, or the first attachment's name when the turn has no
\* text), no later chat request changes a non-null title, and every persisted
\* turn bumps updated_at.
C34_TitleWrittenWhileNull ==
  [][PersistsUserTurn =>
       LET m == messages'[Len(messages')]
           c == m.conversation_id
       IN  /\ conversations'[c].updated_at = m.created_at
           /\ IF conversations[c].title # NoTitle
              THEN conversations'[c].title = conversations[c].title
              ELSE /\ conversations'[c].title # NoTitle
                   /\ CollapsedPrefix(conversations'[c].title, SeedOfTurn(m))]_vars

\* what the handlers do keep: a null title is set when the seed has a
\* character that is no whitespace and stays null otherwise
TitleSetFromNonBlankSeed ==
  [][PersistsUserTurn =>
       LET m == messages'[Len(messages')]
           c == m.conversation_id
       IN  /\ conversations'[c].updated_at = m.created_at
           /\ \A d \in DOMAIN conversations \ {c} : conversations'[d] = conversations[d]
           /\ IF conversations[c].title # NoTitle
              THEN conversations'[c].title = conversations[c].title
              ELSE IF WordChars(SeedOfTurn(m)) = <<>>
              THEN conversations'[c].title = NoTitle
              ELSE CollapsedPrefix(conversations'[c].title, SeedOfTurn(m))]_vars

\* an attachment-only first turn whose file has an empty name left the
\* conversation untitled
UntitledAfterFirstTurn ==
  \E i \in 1..Len(messages) :
    /\ messages[i].role = "user"
    /\ conversations[messages[i].conversation_id].title = NoTitle


\* ------------------------------------------------------------------ C35
\* One streaming chat of a connected client from the request to its last
\* frame: the producer task puts upstream items on the queue at any pace, and
\* the generator's wait for the queue times out while the queue is empty. The
\* event loop resumes the generator whenever it has an item to take or a step
\* to finish (weak fairness of its own steps); nothing is assumed of the
\* upstream, whose end or failure is the premise of the property.
NextDrain ==
  \E r \in Chats :
    \/ conversation_chat_stream_begin(r)
    \/ conversation_chat_stream_persist(r)
    \/ stream_gen_gate(r)
    \/ stream_gen_native(r)
    \/ _producer_put(r)
    \/ _producer_end(r)
    \/ _producer_fail(r)
    \/ _producer_one_shot(r)
    \/ stream_gen_keepalive(r)
    \/ stream_gen_get(r)
    \/ stream_gen_yield(r)
    \/ stream_gen_save(r)
    \/ stream_gen_done(r)

GeneratorStep(r) ==
  stream_gen_get(r) \/ stream_gen_yield(r) \/ stream_gen_save(r) \/ stream_gen_done(r)

SpecDrain ==
  Init /\ [][NextDrain]_vars /\ \A r \in Chats : WF_vars(GeneratorStep(r))

KeepaliveComment == [comment |-> "keepalive"]

IsTerminalFrame(frame) ==
  \/ "done" \in DOMAIN frame /\ frame.done
  \/ "error" \in DOMAIN frame

EmitsTerminalFrame(r) ==
  /\ req[r].pc = "done"
  /\ req[r].frames # <<>>
  /\ IsTerminalFrame(req[r].frames[Len(req[r].frames)])

TimesOut(r) == req'[r].keepalives = req[r].keepalives + 1

\* C35: while draining, a wait that times out without an upstream item emits
\* exactly one keepalive comment and leaves the handler waiting on the same
\* queue with the same producer: it neither ends the stream nor adds an error
\* frame; and whenever the producer has finished or failed, the stream
\* eventually emits its terminal frame.
C35_KeepaliveThenTerminal ==
  /\ [][\A r \in Chats :
          TimesOut(r) =>
            /\ req[r].pc = "draining" /\ req[r].q = <<>>
            /\ req'[r] = [req[r] EXCEPT !.keepalives = @ + 1,
                                        !.frames = Append(@, KeepaliveComment)]
            /\ db' = db]_vars
  /\ \A r \in Chats : (req[r].prod = "finished") ~> EmitsTerminalFrame(r)

\* a stream that sent a keepalive while the upstream was silent and ended with
\* its final frame after the content
C35_Witness ==
  \E r \in Chats :
    /\ EmitsTerminalFrame(r)
    /\ "content" \in DOMAIN req[r].frames[Len(req[r].frames)]
    /\ \E i \in 1..Len(req[r].frames) : req[r].frames[i] = KeepaliveComment
    /\ \E i \in 1..Len(req[r].frames) :
         "delta" \in DOMAIN req[r].frames[i] /\ req[r].frames[i].delta = "a"


\* ------------------------------------------------------------------ C36
Refreshed(r) == req[r].op = "refresh" /\ req[r].pc = "done" /\ req[r].status = 200

\* C36: of two refresh requests that present the same old token at most one
\* succeeds, no two distinct active tokens are successors of the same old
\* token, and no conversation stays with a token that a refresh has rotated.
C36_OneSuccessorPerToken ==
  /\ \A r, q \in Reqs :
       Refreshed(r) /\ Refreshed(q) /\ req[r].token = req[q].token => r = q
  /\ \A r, q \in Reqs :
       /\ Refreshed(r) /\ Refreshed(q) /\ req[r].token = req[q].token
       /\ device_tokens[req[r].new_token].status = "active"
       /\ device_tokens[req[q].new_token].status = "active"
       => req[r].new_token = req[q].new_token
  /\ \A r \in Reqs : Refreshed(r) =>
       \A c \in DOMAIN conversations : conversations[c].device_token # req[r].token


\* ------------------------------------------------------------------ C37
\* C37: every message row and every conversation_files row references a
\* conversation that exists, also when a chat or an upload runs between the
\* segments of other requests and the conversation is deleted meanwhile.
C37_RowsReferenceConversation ==
  /\ \A i \in 1..Len(messages) : messages[i].conversation_id \in DOMAIN conversations
  /\ \A f \in DOMAIN conversation_files :
       conversation_files[f].conversation_id \in DOMAIN conversations


\* ------------------------------------------------------------------ C38
\* a refresh of this token has committed
Rotated(token) == device_tokens[token].note = "rotated_by_refresh"

\* C38: once a refresh of a token has committed, no usage_daily row is keyed by
\* that token in any later state, also when a chat authenticated with it was
\* in flight at the commit.
C38_NoUsageUnderRotatedToken ==
  \A k \in DOMAIN usage_daily : k[1] \in DOMAIN device_tokens => ~Rotated(k[1])


\* ------------------------------------------------------------------ C39
\* Daily quota under concurrency: token 1 (free tier) has used all but 179
\* tokens of the day, nearly all of them prompt tokens, and chats of at most
\* MaxReq requests overlap: a second chat may pass the gate while the first
\* awaits its upstream call.
InitQuota ==
  /\ now = StartTime
  /\ users = ("u1" :> [tier |-> "free", last_refresh_at |-> 0])
  /\ device_tokens =
       (1 :> [tier |-> "free", status |-> "active", user_id |-> "u1",
              expires_at |-> StartTime + DaySeconds, note |-> ""])
       @@ (2 :> [tier |-> "max", status |-> "active", user_id |-> NoUser,
                 expires_at |-> 0, note |-> ""])
  /\ conversations =
       (1 :> [device_token |-> 1, title |-> NoTitle,
              created_at |-> StartTime, updated_at |-> StartTime])
  /\ messages = <<>>
  /\ conversation_files = <<>>
  /\ usage_daily =
       (<<1, StartTime \div DaySeconds>> :>
          [prompt_tokens |-> 59800, completion_tokens |-> 21, requests |-> 40])
  /\ ticks = 0
  /\ started = 0
  /\ req = [r \in Slots |-> IdleReq]
  /\ _LOGIN_FAILURES = [ip \in IPs |-> <<>>]
  /\ _RATE_LIMIT_HITS = <<>>
  /\ handled = <<>>
  /\ minted = Cardinality(DOMAIN device_tokens)
  /\ upload_dir = {}

NextQuota ==
  \/ \E r \in Reqs : OneShot(r)
  \/ \E r \in Reqs : conversation_chat_begin(r) \/ conversation_chat_persist(r)
                       \/ conversation_chat_save(r)

SpecQuota == InitQuota /\ [][NextQuota]_vars

\* C39: the prompt_tokens of a token's row of the day never exceeds the
\* daily_tokens of the token's tier (no tier changes in this specification),
\* also when several chats pass the quota gate before any of them has charged.
C39_PromptTokensWithinQuota ==
  \A k \in DOMAIN usage_daily :
    k[1] \in DOMAIN device_tokens =>
      usage_daily[k].prompt_tokens <= LIMITS[device_tokens[k[1]].tier].daily_tokens
====
